---- MODULE Spec2Model ----
(***************************************************************************)
(* The detective game's persistence layer (src/lib/database.py): the       *)
(* SQLite store of cases, clues, suspects, cached clue analyses, interview *)
(* transcripts and image blobs, and the operations that write and read it; *)
(* and its response normalizer and formatters (src/lib/case_generator.py,  *)
(* clue_analyzer.py, suspect_analyzer.py, case_solver.py), which turn the  *)
(* text the completion gateway returns into cases and analyses.            *)
(*                                                                         *)
(* A table is a function from the primary keys that hold a row to the row. *)
(* Flags are stored as the integers 0/1 and read back through bool().      *)
(* Python's None is the string "None"; an Optional[bool] argument is one   *)
(* of "None", "True", "False".  A value parsed from JSON is the pair of    *)
(* its Python type and its content.  A service call starts in the state    *)
(* where the gateway has answered (last.op = "fetch_openai_completion")    *)
(* and ends in the state that holds what the call returned.  The pages    *)
(* (src/pages) are Streamlit scripts: one action is one run of the script  *)
(* on a click, over the store and the session state of the browser.        *)
(***************************************************************************)
EXTENDS Integers, Sequences, FiniteSets, TLC

VARIABLES
    db,      \* the database file: one field per table
    clock,   \* the wall clock in whole seconds, the unit of CURRENT_TIMESTAMP
    last,    \* the last call made on the module: [op, arg, raised, ret]
    session_state   \* st.session_state of the browser session: key -> value

vars == <<db, clock, last, session_state>>

(***************************** bounds **************************************)
MaxInterviews == 3   \* rows of suspect_interviews
MaxTime == 1         \* seconds the clock may advance

None == "None"

CaseIds == {"caseA", "caseB"}
ClueIds == {"clue1", "clue2"}
SuspectIds == {"sus1", "sus2"}
Questions == {"q1", "q2"}
Summaries == {"sum1", "sum2"}

SeqsUpTo(S, n) == UNION {[1..k -> S] : k \in 0..n}

\* The lists of rows of S in which no id occurs twice (ids are unique strings)
ListsOf(S) ==
    {l \in SeqsUpTo(S, Cardinality({r.id : r \in S})) :
        \A i, j \in DOMAIN l : i # j => l[i].id # l[j].id}

(************************ storage encodings ********************************)
\* "1 if x else 0"
ToInt(b) == IF b THEN 1 ELSE 0

\* bool(row[...])
Bool(i) == i # 0

\* "1 if solved else 0" for an Optional[bool] that is not None
OptInt(o) == IF o = "True" THEN 1 ELSE 0

\* json.dumps / json.loads on the values an analysis carries, lists of
\* strings.  The stored column is the JSON text, here its sequence of tokens.
JsonValues == {<<>>, <<"x">>, <<"x", "y">>}

RECURSIVE JsonItems(_)
JsonItems(l) ==
    IF l = <<>> THEN <<>>
    ELSE IF Len(l) = 1 THEN <<"\"", l[1], "\"">>
    ELSE <<"\"", l[1], "\"", ", ">> \o JsonItems(Tail(l))

json_dumps(v) == <<"[">> \o JsonItems(v) \o <<"]">>

json_loads(text) == CHOOSE v \in JsonValues : json_dumps(v) = text

(***************************** the store ***********************************)
EmptyTable == [k \in {} |-> 0]

EmptyDb ==
    [cases |-> EmptyTable, clues |-> EmptyTable, suspects |-> EmptyTable,
     clue_analyses |-> EmptyTable, suspect_interviews |-> <<>>,
     images |-> EmptyTable]

\* sqlite3.connect(DB_PATH) never issues PRAGMA foreign_keys = ON, and SQLite
\* leaves foreign-key enforcement off unless the connection turns it on.
foreign_keys == FALSE

\* INSERT OR REPLACE by primary key
Upsert(table, id, row) ==
    [k \in (DOMAIN table) \cup {id} |-> IF k = id THEN row ELSE table[k]]

\* DELETE ... WHERE key \in ids
Without(table, ids) == [k \in (DOMAIN table) \ ids |-> table[k]]

\* the rows of suspect_interviews whose case_id is in keep
RECURSIVE KeepCases(_, _)
KeepCases(s, keep) ==
    IF s = <<>> THEN <<>>
    ELSE IF s[1].case_id \in keep THEN <<s[1]>> \o KeepCases(Tail(s), keep)
    ELSE KeepCases(Tail(s), keep)

\* ON DELETE CASCADE of the four child tables (lines 73, 91, 114, 127): acts
\* only when the connection enforces foreign keys.
Cascade(d, case_id) ==
    IF ~foreign_keys THEN d
    ELSE [d EXCEPT
            !.clues = Without(@, {k \in DOMAIN @ : @[k].caseId = case_id}),
            !.suspects = Without(@, {k \in DOMAIN @ : @[k].caseId = case_id}),
            !.clue_analyses = Without(@, {k \in DOMAIN @ : @[k].case_id = case_id}),
            !.suspect_interviews =
                KeepCases(@, {c \in CaseIds : c # case_id})]

\* The cases row with this key leaves the table (by DELETE, or by REPLACE)
DeleteCaseRow(d, case_id) ==
    IF case_id \in DOMAIN d.cases
    THEN Cascade([d EXCEPT !.cases = Without(@, {case_id})], case_id)
    ELSE d

\* A child row whose parent is missing is refused only under enforcement.
FkViolation(d, case_id) == foreign_keys /\ case_id \notin DOMAIN d.cases

\* Faulty variant: no rollback: what ran before the failing statement stays
get_db_no_rollback(before, r) == r.db

(* get_db: the statements of a "with get_db()" block ran to r = [ok, db];   *)
(* the block commits when none raised and rolls back when one did.          *)
get_db(before, r) == IF r.ok THEN r.db ELSE before

Ok(d) == [ok |-> TRUE, db |-> d]
Raise(d) == [ok |-> FALSE, db |-> d]

(************************** save_case **************************************)
\* INSERT OR REPLACE INTO cases: title and description are NOT NULL without a
\* default, so a NULL aborts the statement.  REPLACE first deletes the row
\* that holds the key.
InsertCase(d, case, solution, now) ==
    IF case.title = None \/ case.description = None THEN Raise(d)
    ELSE Ok([DeleteCaseRow(d, case.id) EXCEPT
                !.cases = Upsert(@, case.id,
                    [title |-> case.title,
                     solved |-> ToInt(case.solved),
                     archived |-> ToInt(case.archived),
                     isLLMGenerated |-> ToInt(case.isLLMGenerated),
                     solution |-> solution,
                     created_at |-> now])])

\* Faulty variant: the two flag values bound to each other's column
InsertClueFlagsSwapped(d, case_id, clue) ==
    IF clue.title = None \/ clue.description = None
    THEN [ok |-> FALSE, db |-> d]
    ELSE [ok |-> TRUE,
          db |-> [d EXCEPT !.clues = Upsert(@, clue.id,
                    [caseId |-> case_id,
                     title |-> clue.title,
                     discovered |-> ToInt(clue.examined),
                     examined |-> ToInt(clue.discovered)])]]

\* INSERT OR REPLACE INTO clues, with caseId the bundle's case id
InsertClue(d, case_id, clue) ==
    IF clue.title = None \/ clue.description = None \/ FkViolation(d, case_id)
    THEN Raise(d)
    ELSE Ok([d EXCEPT !.clues = Upsert(@, clue.id,
                [caseId |-> case_id,
                 title |-> clue.title,
                 discovered |-> ToInt(clue.discovered),
                 examined |-> ToInt(clue.examined)])])

\* INSERT OR REPLACE INTO suspects, with caseId the bundle's case id
InsertSuspect(d, case_id, suspect) ==
    IF suspect.name = None \/ suspect.description = None \/ FkViolation(d, case_id)
    THEN Raise(d)
    ELSE Ok([d EXCEPT !.suspects = Upsert(@, suspect.id,
                [caseId |-> case_id,
                 name |-> suspect.name,
                 isGuilty |-> ToInt(suspect.isGuilty),
                 interviewed |-> ToInt(suspect.interviewed)])])

\* "for clue in clues": the loop ends at the first statement that raises
RECURSIVE InsertClues(_, _, _)
InsertClues(r, case_id, list) ==
    IF ~r.ok \/ list = <<>> THEN r
    ELSE InsertClues(InsertClue(r.db, case_id, Head(list)), case_id, Tail(list))

\* "for suspect in suspects"
RECURSIVE InsertSuspects(_, _, _)
InsertSuspects(r, case_id, list) ==
    IF ~r.ok \/ list = <<>> THEN r
    ELSE InsertSuspects(InsertSuspect(r.db, case_id, Head(list)), case_id, Tail(list))

\* The statements of save_case, in order, from database d at time now
SaveCaseStatements(d, b, now) ==
    InsertSuspects(
        InsertClues(InsertCase(d, b.case, b.solution, now), b.case.id, b.clues),
        b.case.id, b.suspects)

save_case(b) ==
    LET r == SaveCaseStatements(db, b, clock) IN
    /\ db' = get_db(db, r)
    /\ last' = [op |-> "save_case", arg |-> b, raised |-> ~r.ok,
                ret |-> IF r.ok THEN b.case.id ELSE None]
    /\ UNCHANGED <<clock, session_state>>

(***************************** reads ***************************************)
NotFound == [found |-> FALSE]

\* SELECT * FROM clues WHERE caseId = ?  (no ORDER BY: the rows as a set)
get_case_clues(d, case_id) ==
    {[id |-> k, caseId |-> d.clues[k].caseId, title |-> d.clues[k].title,
      discovered |-> Bool(d.clues[k].discovered),
      examined |-> Bool(d.clues[k].examined)] :
        k \in {x \in DOMAIN d.clues : d.clues[x].caseId = case_id}}

\* SELECT * FROM suspects WHERE caseId = ?
get_case_suspects(d, case_id) ==
    {[id |-> k, caseId |-> d.suspects[k].caseId, name |-> d.suspects[k].name,
      isGuilty |-> Bool(d.suspects[k].isGuilty),
      interviewed |-> Bool(d.suspects[k].interviewed)] :
        k \in {x \in DOMAIN d.suspects : d.suspects[x].caseId = case_id}}

\* dict(row) of a cases row, flags through bool(), clues and suspects loaded
CaseDict(d, case_id) ==
    [id |-> case_id,
     title |-> d.cases[case_id].title,
     solved |-> Bool(d.cases[case_id].solved),
     archived |-> Bool(d.cases[case_id].archived),
     isLLMGenerated |-> Bool(d.cases[case_id].isLLMGenerated),
     solution |-> d.cases[case_id].solution,
     created_at |-> d.cases[case_id].created_at,
     clues |-> get_case_clues(d, case_id),
     suspects |-> get_case_suspects(d, case_id)]

get_case_by_id(d, case_id) ==
    IF case_id \notin DOMAIN d.cases THEN NotFound ELSE CaseDict(d, case_id)

\* The lists of the keys S in an order that ORDER BY allows: keys with equal
\* sort value come in any order (SQLite leaves the order of ties undefined).
OrderedBy(S, key, desc) ==
    {f \in [1..Cardinality(S) -> S] :
        /\ \A i, j \in 1..Cardinality(S) : i # j => f[i] # f[j]
        /\ \A i, j \in 1..Cardinality(S) :
              i < j => IF desc THEN key[f[i]] >= key[f[j]]
                               ELSE key[f[i]] <= key[f[j]]}

\* SELECT * FROM cases ORDER BY created_at DESC: every list it may return
get_all_cases(d) ==
    LET created == [c \in DOMAIN d.cases |-> d.cases[c].created_at] IN
    {[i \in DOMAIN f |-> CaseDict(d, f[i])] :
        f \in OrderedBy(DOMAIN d.cases, created, TRUE)}

\* SELECT id FROM clues WHERE caseId = ? AND examined = 1
get_examined_clues(d, case_id) ==
    {k \in DOMAIN d.clues : d.clues[k].caseId = case_id /\ d.clues[k].examined = 1}

\* SELECT id FROM suspects WHERE caseId = ? AND interviewed = 1
get_interviewed_suspects(d, case_id) ==
    {k \in DOMAIN d.suspects :
        d.suspects[k].caseId = case_id /\ d.suspects[k].interviewed = 1}

get_clue_analysis(d, clue_id) ==
    IF clue_id \notin DOMAIN d.clue_analyses THEN NotFound
    ELSE [summary |-> d.clue_analyses[clue_id].summary,
          connections |-> json_loads(d.clue_analyses[clue_id].connections),
          nextSteps |-> json_loads(d.clue_analyses[clue_id].nextSteps)]

\* SELECT question, answer, created_at FROM suspect_interviews
\* WHERE suspect_id = ? ORDER BY created_at ASC: every list it may return
get_suspect_interviews(d, suspect_id) ==
    LET rows == {i \in DOMAIN d.suspect_interviews :
                    d.suspect_interviews[i].suspect_id = suspect_id}
        created == [i \in rows |-> d.suspect_interviews[i].created_at]
    IN {[n \in DOMAIN f |-> [question |-> d.suspect_interviews[f[n]].question,
                             answer |-> d.suspect_interviews[f[n]].answer]] :
            f \in OrderedBy(rows, created, FALSE)}

(************************ the other writes *********************************)
\* Faulty variant: both UPDATEs always issued: None is written as 0
UpdateCaseStatusNoNoneCheck(d, case_id, solved, archived) ==
    IF case_id \in DOMAIN d.cases
    THEN [ok |-> TRUE,
          db |-> [d EXCEPT !.cases[case_id].solved = OptInt(solved),
                           !.cases[case_id].archived = OptInt(archived)]]
    ELSE [ok |-> TRUE, db |-> d]

\* Two UPDATE statements, each issued only for an argument that is not None
UpdateCaseStatusStatements(d, case_id, solved, archived) ==
    LET d1 == IF solved # None /\ case_id \in DOMAIN d.cases
              THEN [d EXCEPT !.cases[case_id].solved = OptInt(solved)]
              ELSE d
        d2 == IF archived # None /\ case_id \in DOMAIN d1.cases
              THEN [d1 EXCEPT !.cases[case_id].archived = OptInt(archived)]
              ELSE d1
    IN Ok(d2)

update_case_status(case_id, solved, archived) ==
    /\ db' = get_db(db, UpdateCaseStatusStatements(db, case_id, solved, archived))
    /\ last' = [op |-> "update_case_status", arg |-> <<case_id, solved, archived>>,
                raised |-> FALSE, ret |-> None]
    /\ UNCHANGED <<clock, session_state>>

\* Faulty variant: DELETE FROM cases, the WHERE clause lost
DeleteCaseNoWhere(d, case_id) == [ok |-> TRUE, db |-> [d EXCEPT !.cases = EmptyTable]]

\* DELETE FROM cases WHERE id = ?, as delete_case issues it
DeleteCaseStatement(d, case_id) == Ok(DeleteCaseRow(d, case_id))

delete_case(case_id) ==
    /\ db' = get_db(db, DeleteCaseStatement(db, case_id))
    /\ last' = [op |-> "delete_case", arg |-> case_id, raised |-> FALSE, ret |-> None]
    /\ UNCHANGED <<clock, session_state>>

\* Faulty variant: UPDATE clues SET examined = 1 - examined
MarkClueExaminedToggle(d, clue_id) ==
    IF clue_id \in DOMAIN d.clues
    THEN [ok |-> TRUE, db |-> [d EXCEPT !.clues[clue_id].examined = 1 - @]]
    ELSE [ok |-> TRUE, db |-> d]

\* UPDATE clues SET examined = 1 WHERE id = ?
MarkClueExaminedStatement(d, clue_id) ==
    IF clue_id \in DOMAIN d.clues
    THEN Ok([d EXCEPT !.clues[clue_id].examined = 1])
    ELSE Ok(d)

mark_clue_examined(clue_id) ==
    LET r == MarkClueExaminedStatement(db, clue_id) IN
    /\ db' = get_db(db, r)
    /\ last' = [op |-> "mark_clue_examined", arg |-> clue_id, raised |-> ~r.ok,
                ret |-> None]
    /\ UNCHANGED <<clock, session_state>>

\* UPDATE suspects SET interviewed = 1 WHERE id = ?
MarkSuspectInterviewedStatement(d, suspect_id) ==
    IF suspect_id \in DOMAIN d.suspects
    THEN Ok([d EXCEPT !.suspects[suspect_id].interviewed = 1])
    ELSE Ok(d)

mark_suspect_interviewed(suspect_id) ==
    LET r == MarkSuspectInterviewedStatement(db, suspect_id) IN
    /\ db' = get_db(db, r)
    /\ last' = [op |-> "mark_suspect_interviewed", arg |-> suspect_id,
                raised |-> ~r.ok, ret |-> None]
    /\ UNCHANGED <<clock, session_state>>

\* Faulty variant: INSERT OR IGNORE: the first analysis of a clue is kept
InsertAnalysisOrIgnore(d, clue_id, case_id, analysis) ==
    IF analysis.summary = None THEN [ok |-> FALSE, db |-> d]
    ELSE IF clue_id \in DOMAIN d.clue_analyses THEN [ok |-> TRUE, db |-> d]
    ELSE [ok |-> TRUE,
          db |-> [d EXCEPT !.clue_analyses = Upsert(@, clue_id,
                    [case_id |-> case_id,
                     summary |-> analysis.summary,
                     connections |-> json_dumps(analysis.connections),
                     nextSteps |-> json_dumps(analysis.nextSteps)])]]

\* INSERT OR REPLACE INTO clue_analyses; summary is NOT NULL without a default
InsertAnalysis(d, clue_id, case_id, analysis) ==
    IF analysis.summary = None \/ FkViolation(d, case_id) THEN Raise(d)
    ELSE Ok([d EXCEPT !.clue_analyses = Upsert(@, clue_id,
                [case_id |-> case_id,
                 summary |-> analysis.summary,
                 connections |-> json_dumps(analysis.connections),
                 nextSteps |-> json_dumps(analysis.nextSteps)])])

save_clue_analysis(clue_id, case_id, analysis) ==
    LET r == InsertAnalysis(db, clue_id, case_id, analysis) IN
    /\ db' = get_db(db, r)
    /\ last' = [op |-> "save_clue_analysis", arg |-> <<clue_id, case_id, analysis>>,
                raised |-> ~r.ok, ret |-> None]
    /\ UNCHANGED <<clock, session_state>>

\* INSERT INTO suspect_interviews: the row takes the next AUTOINCREMENT id
\* (its place in the table) and created_at = CURRENT_TIMESTAMP
InsertInterview(d, suspect_id, case_id, question, answer, now) ==
    IF question = None \/ answer = None \/ FkViolation(d, case_id) THEN Raise(d)
    ELSE Ok([d EXCEPT !.suspect_interviews = Append(@,
                [suspect_id |-> suspect_id, case_id |-> case_id,
                 question |-> question, answer |-> answer, created_at |-> now])])

save_interview(suspect_id, case_id, question, answer) ==
    LET r == InsertInterview(db, suspect_id, case_id, question, answer, clock) IN
    /\ Len(db.suspect_interviews) < MaxInterviews
    /\ db' = get_db(db, r)
    /\ last' = [op |-> "save_interview",
                arg |-> <<suspect_id, case_id, question, answer>>,
                raised |-> ~r.ok, ret |-> None]
    /\ UNCHANGED <<clock, session_state>>

\* A call of get_suspect_interviews, returning one of the lists the query allows
read_suspect_interviews(suspect_id) ==
    /\ \E r \in get_suspect_interviews(db, suspect_id) :
          last' = [op |-> "get_suspect_interviews", arg |-> suspect_id,
                   raised |-> FALSE, ret |-> r]
    /\ UNCHANGED <<db, clock, session_state>>

\* A second of wall-clock time passes between two calls
Tick ==
    /\ clock < MaxTime
    /\ clock' = clock + 1
    /\ UNCHANGED <<db, last, session_state>>

(****************************** images *************************************)
\* Faulty variant: INSERT OR IGNORE: the first blob stored under a key is kept
InsertImageOrIgnore(d, url, data, content_type) ==
    IF data = None THEN [ok |-> FALSE, db |-> d]
    ELSE IF url \in DOMAIN d.images THEN [ok |-> TRUE, db |-> d]
    ELSE [ok |-> TRUE,
          db |-> [d EXCEPT !.images = Upsert(@, url,
                    [data |-> data, content_type |-> content_type])]]

\* INSERT OR REPLACE INTO images (url, data, content_type); url is the primary
\* key and data is NOT NULL without a default
InsertImage(d, url, data, content_type) ==
    IF data = None THEN Raise(d)
    ELSE Ok([d EXCEPT !.images = Upsert(@, url,
                [data |-> data, content_type |-> content_type])])

save_image_data(url, data, content_type) ==
    LET r == InsertImage(db, url, data, content_type) IN
    /\ db' = get_db(db, r)
    /\ last' = [op |-> "save_image_data", arg |-> <<url, data, content_type>>,
                raised |-> ~r.ok, ret |-> None]
    /\ UNCHANGED <<clock, session_state>>

\* SELECT data, content_type FROM images WHERE url = ?, fetchone()
get_image_data(d, url) ==
    IF url \in DOMAIN d.images
    THEN [data |-> d.images[url].data, content_type |-> d.images[url].content_type]
    ELSE NotFound

\* f"{item_type}/{item_id}"
url_identifier(item_type, item_id) == item_type \o "/" \o item_id

\* The bytes requests.get(image_url) may answer with; raise_for_status() or the
\* transport may instead raise (the outcome None)
ImageBytes == {"png1", "png2"}
Downloads == ImageBytes \cup {None}

\* The download either raises, and nothing is stored, or its bytes are saved
\* under the composite key with the default content type and returned
download_and_store_image(image_url, item_type, item_id) ==
    \E content \in Downloads :
        LET r == IF content = None THEN Raise(db)
                 ELSE InsertImage(db, url_identifier(item_type, item_id),
                                  content, "image/png") IN
        /\ db' = get_db(db, r)
        /\ last' = [op |-> "download_and_store_image",
                    arg |-> <<image_url, item_type, item_id>>,
                    raised |-> ~r.ok,
                    ret |-> IF r.ok THEN content ELSE None]
        /\ UNCHANGED <<clock, session_state>>

(**************************** LLM payloads *********************************)
\* A value json.loads returns, as the pair of its Python type ("null",
\* "bool", "int", "float", "str", "list" or "dict") and its content.  A list holds a sequence of
\* values, a dict a function from its keys to values; a float holds its
\* value in tenths.  A str that is a whole response text has the type
\* "text", and a str that names a suspect or a clue is kept as its sequence
\* of characters, with the type "chars".
JNull == <<"null", "null">>
JBool(b) == <<"bool", b>>
JInt(n) == <<"int", n>>
JFloat(tenths) == <<"float", tenths>>
JStr(s) == <<"str", s>>
JList(l) == <<"list", l>>
JDict(f) == <<"dict", f>>
JChars(c) == <<"chars", c>>

TypeOf(x) == x[1]
ValueOf(x) == x[2]

\* bool(x), the truth value Python's "if x", "not x" and any() take
Truthy(x) ==
    CASE TypeOf(x) = "null" -> FALSE
      [] TypeOf(x) = "bool" -> ValueOf(x)
      [] TypeOf(x) \in {"int", "float"} -> ValueOf(x) # 0
      [] TypeOf(x) = "str" -> ValueOf(x) # ""
      [] TypeOf(x) \in {"text", "chars"} -> Len(ValueOf(x)) > 0
      [] TypeOf(x) = "list" -> Len(ValueOf(x)) > 0
      [] TypeOf(x) = "dict" -> DOMAIN ValueOf(x) # {}

\* d.get(key, default) on a dict d
Get(d, key, default) == IF key \in DOMAIN ValueOf(d) THEN ValueOf(d)[key] ELSE default

\* "for item in x: item.get(...)": the items the loop body sees.  An empty
\* str or dict loops over nothing.
ListItems(x) == IF TypeOf(x) = "list" THEN ValueOf(x) ELSE <<>>

\* The loop raises: x is not iterable (TypeError), or one of its items is not
\* a dict and has no get (AttributeError): an item of a list, a character of
\* a str, a key of a dict
LoopRaises(x) ==
    \/ TypeOf(x) \in {"null", "bool", "int", "float"}
    \/ TypeOf(x) \in {"str", "text", "chars", "dict"} /\ Truthy(x)
    \/ TypeOf(x) = "list" /\ \E i \in DOMAIN ValueOf(x) : TypeOf(ValueOf(x)[i]) # "dict"

(************************** response texts *********************************)
\* The text the gateway returns, as its sequence of pieces.  A piece is a
\* punctuation mark of the extraction patterns or of JSON (three backticks,
\* the tag json with its newline, the tag json with other text after it on
\* its line, a newline, a brace, a bracket), a run of
\* prose, the members written between the braces of an object, a JSON
\* literal, or a JSON text nested deeper than the interpreter's recursion
\* limit.
Tok(k) == <<k, JNull>>
Members(f) == <<"members", JDict(f)>>
Literal(x) == <<"literal", x>>
KindOf(p) == p[1]
PayloadOf(p) == p[2]
Fence == Tok("fence")
JsonTag == Tok("json-newline")
Json == Tok("json")
Newline == Tok("newline")
LBrace == Tok("lbrace")
RBrace == Tok("rbrace")
LBracket == Tok("lbracket")
RBracket == Tok("rbracket")
Prose == Tok("prose")
Deep == Tok("deep")

\* The raw text as the str value a degraded default carries
JText(r) == <<"text", r>>

Least(S) == CHOOSE x \in S : \A y \in S : x <= y
Greatest(S) == CHOOSE x \in S : \A y \in S : x >= y

NoMatch == [found |-> FALSE, group |-> <<>>]
Match(r, from, to) == [found |-> TRUE, group |-> SubSeq(r, from, to)]

\* re.search(r'```json\n([\s\S]*?)\n```', response): the leftmost opening
\* that a closing follows, up to the nearest closing
search_json_fence(r) ==
    LET closings(i) == {j \in (i + 2)..(Len(r) - 1) :
                            r[j] = Newline /\ r[j + 1] = Fence}
        openings == {i \in 1..(Len(r) - 1) :
                        r[i] = Fence /\ r[i + 1] = JsonTag /\ closings(i) # {}}
    IN  IF openings = {} THEN NoMatch
        ELSE LET i == Least(openings) IN Match(r, i + 2, Least(closings(i)) - 1)

\* re.search(r'```([\s\S]*?)```', response): the first fence and the next one
search_fence(r) ==
    LET fences == {i \in 1..Len(r) : r[i] = Fence} IN
    IF Cardinality(fences) < 2 THEN NoMatch
    ELSE LET i == Least(fences) IN Match(r, i + 1, Least(fences \ {i}) - 1)

\* re.search(r'({[\s\S]*})', response): from the first "{" to the last "}"
search_braces(r) ==
    LET opens == {i \in 1..Len(r) : r[i] = LBrace}
        closes == {j \in 1..Len(r) : r[j] = RBrace}
    IN  IF opens = {} \/ closes = {} THEN NoMatch
        ELSE IF Greatest(closes) < Least(opens) THEN NoMatch
        ELSE Match(r, Least(opens), Greatest(closes))

\* json_content = json_match.group(1) if json_match else response
json_content(r) ==
    IF search_json_fence(r).found THEN search_json_fence(r).group
    ELSE IF search_fence(r).found THEN search_fence(r).group
    ELSE IF search_braces(r).found THEN search_braces(r).group
    ELSE r

\* json.loads(json_content): white space around the document is skipped.  The
\* document is an object, an array of one object, an empty array or a
\* literal; anything else is a JSONDecodeError, and a text nested too deep is
\* a RecursionError.
StripSpace(c) == SelectSeq(c, LAMBDA p : p # Newline)

loads(c) ==
    LET s == StripSpace(c) IN
    IF Len(s) > 0 /\ s[1] = Deep THEN [ok |-> FALSE, error |-> "RecursionError", value |-> JNull]
    ELSE IF Len(s) = 1 /\ KindOf(s[1]) = "literal"
        THEN [ok |-> TRUE, error |-> None, value |-> PayloadOf(s[1])]
    ELSE IF Len(s) = 2 /\ s[1] = LBrace /\ s[2] = RBrace
        THEN [ok |-> TRUE, error |-> None, value |-> JDict(EmptyTable)]
    ELSE IF Len(s) = 3 /\ s[1] = LBrace /\ KindOf(s[2]) = "members" /\ s[3] = RBrace
        THEN [ok |-> TRUE, error |-> None, value |-> PayloadOf(s[2])]
    ELSE IF Len(s) = 2 /\ s[1] = LBracket /\ s[2] = RBracket
        THEN [ok |-> TRUE, error |-> None, value |-> JList(<<>>)]
    ELSE IF Len(s) = 5 /\ s[1] = LBracket /\ s[2] = LBrace /\ KindOf(s[3]) = "members"
              /\ s[4] = RBrace /\ s[5] = RBracket
        THEN [ok |-> TRUE, error |-> None, value |-> JList(<<PayloadOf(s[3])>>)]
    ELSE [ok |-> FALSE, error |-> "JSONDecodeError", value |-> JNull]

\* What a call returns or raises
Returns(x) == [raised |-> FALSE, error |-> None, value |-> x]
Raises(e) == [raised |-> TRUE, error |-> e, value |-> JNull]

\* case_generator.parse_json_response: a JSONDecodeError becomes a ValueError
case_generator_parse_json_response(response) ==
    LET p == loads(json_content(response)) IN
    IF p.ok THEN Returns(p.value)
    ELSE IF p.error = "JSONDecodeError" THEN Raises("ValueError")
    ELSE Raises(p.error)

\* clue_analyzer.parse_json_response: a JSONDecodeError gives the default
clue_analyzer_parse_json_response(response) ==
    LET p == loads(json_content(response)) IN
    IF p.ok THEN Returns(p.value)
    ELSE IF p.error = "JSONDecodeError"
        THEN Returns(JDict([summary |-> JText(response),
                            connections |-> JList(<<>>),
                            nextSteps |-> JList(<<>>)]))
    ELSE Raises(p.error)

suspect_analyzer_parse_json_response(response) ==
    LET p == loads(json_content(response)) IN
    IF p.ok THEN Returns(p.value)
    ELSE IF p.error = "JSONDecodeError"
        THEN Returns(JDict([trustworthiness |-> JInt(50),
                            inconsistencies |-> JList(<<>>),
                            connections |-> JList(<<>>),
                            suggestedQuestions |-> JList(<<>>)]))
    ELSE Raises(p.error)

case_solver_parse_json_response(response) ==
    LET p == loads(json_content(response)) IN
    IF p.ok THEN Returns(p.value)
    ELSE IF p.error = "JSONDecodeError"
        THEN Returns(JDict([narrative |-> JText(response)]))
    ELSE Raises(p.error)

(************************** case generation ********************************)
\* Faulty variant: an id the payload supplies is kept
payload_id(item, fresh) == ValueOf(Get(item, "id", JStr(fresh)))

\* id=str(uuid.uuid4()): the payload item's own id is not looked at
new_id(item, fresh) == fresh

\* format_generated_case raises: data, or the value under 'case', has no get;
\* a loop over the clues or suspects raises; the solution is neither a str
\* nor a dict
format_generated_case_raises(data) ==
    \/ TypeOf(data) # "dict"
    \/ /\ TypeOf(data) = "dict"
       /\ \/ TypeOf(Get(data, "case", Get(data, "case_details", JDict(EmptyTable))))
                # "dict"
          \/ LoopRaises(Get(data, "clues", Get(data, "evidence", JList(<<>>))))
          \/ LoopRaises(Get(data, "suspects", JList(<<>>)))
          \/ TypeOf(Get(data, "solution", JStr(""))) \notin {"str", "dict"}

\* The bundle format_generated_case returns when it does not raise.  ids is
\* the sequence of values uuid.uuid4() returns, in call order: the case, then
\* each clue, then each suspect.
format_generated_case(data, ids) ==
    LET case_data == Get(data, "case", Get(data, "case_details", JDict(EmptyTable)))
        case == [id |-> new_id(case_data, ids[1]),
                 title |-> Get(case_data, "title",
                               Get(data, "title", JStr("Untitled Case"))),
                 solved |-> FALSE,
                 isLLMGenerated |-> TRUE]
        clues_data == ListItems(Get(data, "clues", Get(data, "evidence", JList(<<>>))))
        clues == [i \in DOMAIN clues_data |->
                    [id |-> new_id(clues_data[i], ids[1 + i]),
                     caseId |-> case.id,
                     title |-> Get(clues_data[i], "title",
                                   Get(clues_data[i], "item", JStr("Untitled Clue"))),
                     location |-> Get(clues_data[i], "location",
                                      Get(clues_data[i], "position_found", JStr(""))),
                     discovered |-> FALSE,
                     examined |-> FALSE]]
        suspects_data == ListItems(Get(data, "suspects", JList(<<>>)))
        suspects == [j \in DOMAIN suspects_data |->
                       [id |-> new_id(suspects_data[j], ids[1 + Len(clues_data) + j]),
                        caseId |-> case.id,
                        name |-> Get(suspects_data[j], "name", JStr("Unknown Suspect")),
                        isGuilty |-> Get(suspects_data[j], "isGuilty", JBool(FALSE)),
                        interviewed |-> FALSE]]
        solution_data == Get(data, "solution", JStr(""))
        solution_text == IF TypeOf(solution_data) = "str" THEN solution_data
                         ELSE Get(solution_data, "reasoning", JStr(""))
    IN  [case |-> case,
         clues |-> clues,
         suspects |->
             \* "if suspects and not any(s.isGuilty for s in suspects)"
             IF Len(suspects) > 0
                  /\ ~\E j \in DOMAIN suspects : Truthy(suspects[j].isGuilty)
             THEN [suspects EXCEPT ![1].isGuilty = JBool(TRUE)]
             ELSE suspects,
         solution |-> solution_text]

FALLBACK_CASE ==
    JDict([case |-> JDict([title |-> JStr("The Missing Backpack"),
                           location |-> JStr("Elementary School Classroom")]),
           clues |-> JList(<<JDict([title |-> JStr("Empty Hook"),
                                    location |-> JStr("Coat Room")])>>),
           suspects |-> JList(<<JDict([name |-> JStr("Jamie"),
                                       isGuilty |-> JBool(TRUE)])>>),
           solution |-> JStr("Jamie took the wrong backpack by mistake!")])

\* The outcome of fetch_openai_completion: a text, or an exception
GatewayText(r) == [raised |-> FALSE, text |-> r]
GatewayError == [raised |-> TRUE, text |-> <<>>]

\* Faulty variant: after a failure an empty payload is formatted, not the
\* fallback case
empty_fallback(g, ids) ==
    LET p == IF g.raised THEN Raises("gateway")
             ELSE case_generator_parse_json_response(g.text) IN
    IF p.raised \/ format_generated_case_raises(p.value)
    THEN format_generated_case(JDict(EmptyTable), ids)
    ELSE format_generated_case(p.value, ids)

\* generate_case: any exception of the gateway call, of the parse or of the
\* formatting is caught and the fallback case is formatted instead.  ids are
\* the values uuid.uuid4() returns to the formatting that completes.
generate_case_result(g, ids) ==
    LET p == IF g.raised THEN Raises("gateway")
             ELSE case_generator_parse_json_response(g.text) IN
    IF p.raised \/ format_generated_case_raises(p.value)
    THEN format_generated_case(FALLBACK_CASE, ids)
    ELSE format_generated_case(p.value, ids)

\* The gateway has answered with last.ret and generate_case returns
generate_case(ids) ==
    /\ last.op = "fetch_openai_completion"
    /\ last' = [op |-> "generate_case",
                arg |-> [gateway |-> last.ret, uuid4 |-> ids],
                raised |-> FALSE,
                ret |-> generate_case_result(last.ret, ids)]
    /\ UNCHANGED <<db, clock, session_state>>

(**************************** clue analysis ********************************)
\* isinstance(x, str)
IsStr(x) == TypeOf(x) \in {"str", "text", "chars"}

\* str.lower() on the letters the names are written in
LowerChar(c) ==
    CASE c = "A" -> "a"
      [] c = "B" -> "b"
      [] c = "C" -> "c"
      [] OTHER -> c

Lower(name) == [i \in DOMAIN name |-> LowerChar(name[i])]

\* "a in b" on strs: a occurs in b as a run of characters (the empty str
\* occurs in every str)
In(a, b) ==
    \E i \in 0..(Len(b) - Len(a)) : SubSeq(b, i + 1, i + Len(a)) = a

\* The n-th smallest member of a set of positions
Nth(K, n) == CHOOSE i \in K : Cardinality({j \in K : j < i}) = n - 1

\* The entries at the positions K of a list, in list order
Kept(K, entry) == [n \in 1..Cardinality(K) |-> entry[Nth(K, n)]]

\* conn.get('suspect', conn.get('suspectName', ''))
suspect_name(conn) == Get(conn, "suspect", Get(conn, "suspectName", JChars(<<>>)))

\* The positions of the suspects the generator of matched_suspect accepts
matching_suspects(suspects, name) ==
    {i \in DOMAIN suspects :
        \/ In(Lower(suspects[i].name), Lower(name))
        \/ In(Lower(name), Lower(suspects[i].name))}

\* "if isinstance(connections_data, list)": the entries that are looped over
connections_data(data) ==
    LET c == Get(data, "connections", JList(<<>>)) IN
    IF TypeOf(c) = "list" THEN ValueOf(c) ELSE <<>>

\* format_clue_analysis raises: data or an entry has no get, or, with a
\* suspect to compare with, the entry's suspect name has no lower
format_clue_analysis_raises(data, suspects) ==
    \/ TypeOf(data) # "dict"
    \/ /\ TypeOf(data) = "dict"
       /\ \E i \in DOMAIN connections_data(data) :
             LET conn == connections_data(data)[i] IN
             \/ TypeOf(conn) # "dict"
             \/ /\ TypeOf(conn) = "dict"
                /\ ~IsStr(suspect_name(conn))
                /\ Len(suspects) > 0

\* Faulty variant: an empty list of next steps is returned as it is
keep_next_steps(next_steps) == next_steps

\* if not next_steps: next_steps = ["Continue investigating"]
default_next_steps(next_steps) ==
    IF Len(next_steps) = 0 THEN <<JStr("Continue investigating")>> ELSE next_steps

\* The analysis format_clue_analysis returns when it does not raise
format_clue_analysis(data, suspects) ==
    LET conns == connections_data(data)
        matched(i) == matching_suspects(suspects, ValueOf(suspect_name(conns[i])))
        kept == {i \in DOMAIN conns : matched(i) # {}}
        connection(i) ==
            [suspectId |-> suspects[Least(matched(i))].id,
             connectionType |-> Get(conns[i], "connectionType",
                                    Get(conns[i], "type", JStr("related"))),
             description |-> Get(conns[i], "description", JStr(""))]
        next_steps == Get(data, "nextSteps", JList(<<>>))
    IN  [summary |-> Get(data, "summary", JStr("No analysis available")),
         connections |-> Kept(kept, [i \in DOMAIN conns |->
                                        IF i \in kept THEN connection(i) ELSE None]),
         nextSteps |->
             default_next_steps(
                 IF TypeOf(next_steps) = "list" THEN ValueOf(next_steps)
                 ELSE IF Truthy(next_steps) THEN <<next_steps>> ELSE <<>>)]

\* analyze_clue: the analysis of the answer, or the fallback analysis when
\* the gateway call, the parse or the formatting raises
analyze_clue_result(g, suspects) ==
    LET p == IF g.raised THEN Raises("gateway")
             ELSE clue_analyzer_parse_json_response(g.text) IN
    IF p.raised \/ format_clue_analysis_raises(p.value, suspects)
    THEN [summary |-> JStr("This is an important clue that can help solve the mystery."),
          connections |-> <<>>,
          nextSteps |-> <<JStr("Continue investigating"), JStr("Look for more clues")>>]
    ELSE format_clue_analysis(p.value, suspects)

\* The gateway has answered with last.ret and analyze_clue returns
analyze_clue ==
    /\ last.op = "fetch_openai_completion"
    /\ last' = [op |-> "analyze_clue",
                arg |-> [gateway |-> last.ret, suspects |-> last.arg.suspects],
                raised |-> FALSE,
                ret |-> analyze_clue_result(last.ret, last.arg.suspects)]
    /\ UNCHANGED <<db, clock, session_state>>

(*************************** suspect analysis ******************************)
Digits == {"0", "1", "2", "3", "4", "5", "6", "7", "8", "9"}

DigitValue(c) ==
    CASE c = "0" -> 0 [] c = "1" -> 1 [] c = "2" -> 2 [] c = "3" -> 3
      [] c = "4" -> 4 [] c = "5" -> 5 [] c = "6" -> 6 [] c = "7" -> 7
      [] c = "8" -> 8 [] c = "9" -> 9

RECURSIVE Decimal(_)
Decimal(ds) ==
    IF Len(ds) = 0 THEN 0
    ELSE 10 * Decimal(SubSeq(ds, 1, Len(ds) - 1)) + DigitValue(ds[Len(ds)])

\* The str without the white space at its ends
RECURSIVE Trim(_)
Trim(s) ==
    IF Len(s) > 0 /\ s[1] = " " THEN Trim(Tail(s))
    ELSE IF Len(s) > 0 /\ s[Len(s)] = " " THEN Trim(SubSeq(s, 1, Len(s) - 1))
    ELSE s

Unsigned(s) == IF Len(s) > 0 /\ s[1] \in {"-", "+"} THEN Tail(s) ELSE s

\* int(s) on a str: white space around an optional sign and decimal digits;
\* anything else is a ValueError
int_raises(s) ==
    LET body == Unsigned(Trim(s)) IN
    Len(body) = 0 \/ \E i \in DOMAIN body : body[i] \notin Digits

int(s) ==
    LET t == Trim(s) IN
    IF t[1] = "-" THEN 0 - Decimal(Unsigned(t)) ELSE Decimal(Unsigned(t))

\* A number in tenths, as min and max compare it (True is 1, False is 0)
Tenths(x) ==
    CASE TypeOf(x) = "int" -> 10 * ValueOf(x)
      [] TypeOf(x) = "float" -> ValueOf(x)
      [] TypeOf(x) = "bool" -> IF ValueOf(x) THEN 10 ELSE 0

\* data.get('trustworthiness', 50), through int() when it is a str
coerced_trustworthiness(data) ==
    LET t == Get(data, "trustworthiness", JInt(50)) IN
    IF IsStr(t)
    THEN IF int_raises(ValueOf(t)) THEN JInt(50) ELSE JInt(int(ValueOf(t)))
    ELSE t

\* max(0, min(100, t)): min returns 100 unless t < 100, max returns 0 unless
\* the result is > 0; a value that is kept keeps its type
clamp(t) ==
    LET low == IF Tenths(t) < 1000 THEN t ELSE JInt(100) IN
    IF Tenths(low) > 0 THEN low ELSE JInt(0)

\* The list a field is coerced to: "if not isinstance(x, list): x = [x] if x
\* else []"
as_list(x) ==
    IF TypeOf(x) = "list" THEN ValueOf(x)
    ELSE IF Truthy(x) THEN <<x>> ELSE <<>>

\* conn.get('clue', conn.get('clueTitle', ''))
clue_title(conn) == Get(conn, "clue", Get(conn, "clueTitle", JChars(<<>>)))

matching_clues(clues, title) ==
    {i \in DOMAIN clues :
        \/ In(Lower(clues[i].title), Lower(title))
        \/ In(Lower(title), Lower(clues[i].title))}

\* format_suspect_analysis raises: data or an entry has no get; the score is
\* not a number and min raises TypeError; or, with a clue to compare with, an
\* entry's clue title has no lower
format_suspect_analysis_raises(data, clues) ==
    \/ TypeOf(data) # "dict"
    \/ /\ TypeOf(data) = "dict"
       /\ \/ TypeOf(coerced_trustworthiness(data)) \notin {"int", "float", "bool"}
          \/ \E i \in DOMAIN connections_data(data) :
                LET conn == connections_data(data)[i] IN
                \/ TypeOf(conn) # "dict"
                \/ /\ TypeOf(conn) = "dict"
                   /\ ~IsStr(clue_title(conn))
                   /\ Len(clues) > 0

\* The analysis format_suspect_analysis returns when it does not raise
format_suspect_analysis(data, clues, suspect_id) ==
    LET conns == connections_data(data)
        matched(i) == matching_clues(clues, ValueOf(clue_title(conns[i])))
        kept == {i \in DOMAIN conns : matched(i) # {}}
        connection(i) ==
            [clueId |-> clues[Least(matched(i))].id,
             connectionType |-> Get(conns[i], "type",
                                    Get(conns[i], "connectionType", JStr("related"))),
             description |-> Get(conns[i], "description", JStr(""))]
        questions == as_list(Get(data, "suggestedQuestions", JList(<<>>)))
    IN  [suspectId |-> suspect_id,
         trustworthiness |-> clamp(coerced_trustworthiness(data)),
         inconsistencies |-> as_list(Get(data, "inconsistencies", JList(<<>>))),
         connections |-> Kept(kept, [i \in DOMAIN conns |->
                                        IF i \in kept THEN connection(i) ELSE None]),
         suggestedQuestions |->
             IF Len(questions) = 0
             THEN <<JStr("What were you doing?"), JStr("Did you see anything unusual?")>>
             ELSE questions]

\* analyze_suspect: the analysis of the answer, or the fallback analysis when
\* the gateway call, the parse or the formatting raises
analyze_suspect_result(g, clues, suspect_id) ==
    LET p == IF g.raised THEN Raises("gateway")
             ELSE suspect_analyzer_parse_json_response(g.text) IN
    IF p.raised \/ format_suspect_analysis_raises(p.value, clues)
    THEN [suspectId |-> suspect_id,
          trustworthiness |-> JInt(50),
          inconsistencies |-> <<>>,
          connections |-> <<>>,
          suggestedQuestions |-> <<JStr("What were you doing?"),
                                   JStr("Did you see anything?")>>]
    ELSE format_suspect_analysis(p.value, clues, suspect_id)

\* The gateway has answered with last.ret and analyze_suspect returns
analyze_suspect ==
    /\ last.op = "fetch_openai_completion"
    /\ last' = [op |-> "analyze_suspect",
                arg |-> [gateway |-> last.ret, clues |-> last.arg.clues,
                         suspect |-> last.arg.suspect],
                raised |-> FALSE,
                ret |-> analyze_suspect_result(last.ret, last.arg.clues,
                                               last.arg.suspect)]
    /\ UNCHANGED <<db, clock, session_state>>

(*************************** solution grading ******************************)
\* next((s for s in suspects if s.id == accused_suspect_id), None): the
\* position of the first suspect with that id, 0 for None
accused_suspect(suspects, accused_suspect_id) ==
    LET found == {i \in DOMAIN suspects : suspects[i].id = accused_suspect_id} IN
    IF found = {} THEN 0 ELSE Least(found)

\* next((s for s in suspects if s.isGuilty), None)
guilty_suspect(suspects) ==
    LET found == {i \in DOMAIN suspects : suspects[i].isGuilty} IN
    IF found = {} THEN 0 ELSE Least(found)

\* The two checks made before the prompt is built: the message of the
\* ValueError raised, or None
validation_error(suspects, accused_suspect_id) ==
    IF accused_suspect(suspects, accused_suspect_id) = 0
    THEN "Accused suspect not found"
    ELSE IF guilty_suspect(suspects) = 0 THEN "No guilty suspect found"
    ELSE None

\* is_correct = accused_suspect.id == guilty_suspect.id
is_correct(suspects, accused_suspect_id) ==
    suspects[accused_suspect(suspects, accused_suspect_id)].id
        = suspects[guilty_suspect(suspects)].id

\* create_fallback_narrative; the two Thai texts are written here by their
\* meaning
create_fallback_narrative(correct, language) ==
    IF language = "th"
    THEN IF correct THEN JStr("th: your analysis is correct, you solved the case")
         ELSE JStr("th: the suspect you chose is not the culprit, check the evidence again")
    ELSE IF correct
         THEN JStr("Your analysis is correct! You identified the true culprit and provided good reasoning. You successfully solved this case!")
         ELSE JStr("Your analysis has interesting points, but the suspect you chose is not the actual culprit. Try reviewing the evidence again and reconsider the other suspects.")

CaseSolution(solved, culpritId, reasoning, evidenceIds, narrative) ==
    [solved |-> solved, culpritId |-> culpritId, reasoning |-> reasoning,
     evidenceIds |-> evidenceIds, narrative |-> narrative]

\* format_case_solution raises when data has no get (it is no dict)
format_case_solution_raises(data) == TypeOf(data) # "dict"

format_case_solution(data, culprit_id, evidence_ids, reasoning, correct, language) ==
    LET narrative == Get(data, "narrative",
                         Get(data, "explanation", Get(data, "description", JStr(""))))
    IN  CaseSolution(correct, culprit_id, reasoning, evidence_ids,
                     IF Truthy(narrative) THEN narrative
                     ELSE create_fallback_narrative(correct, language))

create_fallback_solution(culprit_id, evidence_ids, reasoning, correct, language) ==
    CaseSolution(correct, culprit_id, reasoning, evidence_ids,
                 create_fallback_narrative(correct, language))

\* Faulty variant: the suspects are checked after the gateway was called
validate_after_gateway(g, suspects, accused_suspect_id, evidence_ids, reasoning, language) ==
    IF validation_error(suspects, accused_suspect_id) # None
    THEN [raised |-> TRUE, error |-> validation_error(suspects, accused_suspect_id),
          value |-> None, fetched |-> TRUE]
    ELSE [raised |-> FALSE, error |-> None, fetched |-> TRUE,
          value |-> create_fallback_solution(accused_suspect_id, evidence_ids,
                                             reasoning,
                                             is_correct(suspects, accused_suspect_id),
                                             language)]

\* analyze_solution on the outcome g the gateway gives when it is called:
\* what it raises or returns, and whether fetch_openai_completion was called.
\* The validation errors are raised before the try block; inside it every
\* exception gives the fallback solution.
analyze_solution_result(g, suspects, accused_suspect_id, evidence_ids, reasoning, language) ==
    LET error == validation_error(suspects, accused_suspect_id)
        correct == is_correct(suspects, accused_suspect_id)
        p == IF g.raised THEN Raises("gateway")
             ELSE case_solver_parse_json_response(g.text)
    IN  IF error # None
        THEN [raised |-> TRUE, error |-> error, value |-> None, fetched |-> FALSE]
        ELSE [raised |-> FALSE, error |-> None, fetched |-> TRUE,
              value |->
                 IF p.raised \/ format_case_solution_raises(p.value)
                 THEN create_fallback_solution(accused_suspect_id, evidence_ids,
                                               reasoning, correct, language)
                 ELSE format_case_solution(p.value, accused_suspect_id, evidence_ids,
                                           reasoning, correct, language)]

\* The gateway's outcome is last.ret and analyze_solution raises or returns
analyze_solution(accused_suspect_id, evidence_ids, reasoning, language) ==
    /\ last.op = "fetch_openai_completion"
    /\ LET result == analyze_solution_result(last.ret, last.arg.suspects,
                                             accused_suspect_id, evidence_ids,
                                             reasoning, language)
       IN  last' = [op |-> "analyze_solution",
                    arg |-> [gateway |-> last.ret, suspects |-> last.arg.suspects,
                             accusedSuspectId |-> accused_suspect_id,
                             evidenceIds |-> evidence_ids, reasoning |-> reasoning,
                             language |-> language],
                    raised |-> result.raised,
                    ret |-> result]
    /\ UNCHANGED <<db, clock, session_state>>

\* process_interview_question: the gateway call is not inside a try block,
\* so its exception is the operation's; otherwise the text is returned as
\* it came
process_interview_question_result(g) ==
    IF g.raised THEN [raised |-> TRUE, error |-> "gateway", value |-> None]
    ELSE [raised |-> FALSE, error |-> None, value |-> g.text]

process_interview_question ==
    /\ last.op = "fetch_openai_completion"
    /\ LET result == process_interview_question_result(last.ret)
       IN  last' = [op |-> "process_interview_question",
                    arg |-> [gateway |-> last.ret],
                    raised |-> result.raised,
                    ret |-> result]
    /\ UNCHANGED <<db, clock, session_state>>

\* handler.do_POST of the solve-case endpoint: 200 with the solution, or 500
\* with the message of whatever was raised
do_POST(accused_suspect_id, evidence_ids, reasoning, language) ==
    /\ last.op = "fetch_openai_completion"
    /\ LET result == analyze_solution_result(last.ret, last.arg.suspects,
                                             accused_suspect_id, evidence_ids,
                                             reasoning, language)
       IN  last' = [op |-> "do_POST",
                    arg |-> [gateway |-> last.ret, suspects |-> last.arg.suspects,
                             accusedSuspectId |-> accused_suspect_id,
                             evidenceIds |-> evidence_ids, reasoning |-> reasoning,
                             language |-> language],
                    raised |-> FALSE,
                    ret |-> IF result.raised
                            THEN [status |-> 500, body |-> [error |-> result.error],
                                  fetched |-> result.fetched]
                            ELSE [status |-> 200, body |-> result.value,
                                  fetched |-> result.fetched]]
    /\ UNCHANGED <<db, clock, session_state>>

(************************* response normalizer *****************************)
\* A call of one task's parse_json_response on the text the gateway returned
parse_json_response(task, result) ==
    /\ last.op = "fetch_openai_completion"
    /\ ~last.ret.raised
    /\ last' = [op |-> "parse_json_response",
                arg |-> [task |-> task, response |-> last.ret.text],
                raised |-> result.raised,
                ret |-> result]
    /\ UNCHANGED <<db, clock, session_state>>

parse_case_response ==
    parse_json_response("case_generator",
                        case_generator_parse_json_response(last.ret.text))

parse_clue_response ==
    parse_json_response("clue_analyzer",
                        clue_analyzer_parse_json_response(last.ret.text))

parse_suspect_response ==
    parse_json_response("suspect_analyzer",
                        suspect_analyzer_parse_json_response(last.ret.text))

parse_solution_response ==
    parse_json_response("case_solver",
                        case_solver_parse_json_response(last.ret.text))

(******************************* the pages *********************************)
\* A page is a script that runs from its first line on every click; the
\* click makes the st.button it belongs to return True when the run reaches
\* it.  One action is one such run.

\* st.session_state.get(key)
session_get(s, key) == IF key \in DOMAIN s THEN s[key] ELSE None

\* f'confirm_delete_{case["id"]}'
confirm_key(case_id) == "confirm_delete_" \o case_id

\* The buttons of a case are drawn when get_all_cases lists it; the search
\* box and the "Show Archived" checkbox let the player show any stored case
Listed(d, case_id) == case_id \in DOMAIN d.cases

\* "Investigate": the case is selected for the Case Details page
investigate_button(case_id) ==
    /\ Listed(db, case_id)
    /\ session_state' = Upsert(session_state, "selected_case_id", case_id)
    /\ last' = [op |-> "investigate_button", arg |-> case_id, raised |-> FALSE,
                ret |-> None]
    /\ UNCHANGED <<db, clock>>

\* "Archive" is drawn for a case that is not archived and "Unarchive" for one
\* that is: update_case_status(case['id'], archived=...)
archive_button(case_id) ==
    /\ Listed(db, case_id)
    /\ LET archived == IF Bool(db.cases[case_id].archived) THEN "False" ELSE "True"
       IN  /\ db' = get_db(db, UpdateCaseStatusStatements(db, case_id, None, archived))
           /\ last' = [op |-> "archive_button", arg |-> <<case_id, archived>>,
                       raised |-> FALSE, ret |-> None]
    /\ UNCHANGED <<clock, session_state>>

\* Faulty variant: the first click deletes
delete_without_confirmation(d, s, case_id) ==
    [db |-> get_db(d, DeleteCaseStatement(d, case_id)),
     session_state |-> Upsert(s, confirm_key(case_id), "False"),
     deleted |-> TRUE]

\* "Delete": with the confirmation flag set the case is deleted and the flag
\* reset, otherwise the flag is set and a warning shown
delete_button_handler(d, s, case_id) ==
    IF session_get(s, confirm_key(case_id)) = "True"
    THEN [db |-> get_db(d, DeleteCaseStatement(d, case_id)),
          session_state |-> Upsert(s, confirm_key(case_id), "False"),
          deleted |-> TRUE]
    ELSE [db |-> d,
          session_state |-> Upsert(s, confirm_key(case_id), "True"),
          deleted |-> FALSE]

delete_button(case_id) ==
    /\ Listed(db, case_id)
    /\ LET r == delete_button_handler(db, session_state, case_id)
       IN  /\ db' = r.db
           /\ session_state' = r.session_state
           /\ last' = [op |-> "delete_button", arg |-> case_id, raised |-> FALSE,
                       ret |-> r.deleted]
    /\ UNCHANGED clock

\* A call that hands `given` positional arguments to a function of `params`
\* parameters, none with a default, raises TypeError unless the two agree
call_raises(params, given) == given # params

\* Clue(**clue_dict) and Suspect(**s) raise TypeError when the dict has a key
\* that is no field of the dataclass.  The dicts are dict(row) of a SELECT *,
\* so their keys are the columns of the table.
ClueFields ==
    {"id", "caseId", "title", "description", "location", "type", "discovered",
     "examined", "relevance", "emoji"}
ClueColumns ==
    {"id", "caseId", "title", "description", "location", "type", "discovered",
     "examined", "relevance", "emoji", "imageUrl"}
SuspectFields ==
    {"id", "caseId", "name", "description", "background", "motive", "alibi",
     "isGuilty", "interviewed", "emoji"}
SuspectColumns ==
    {"id", "caseId", "name", "description", "background", "motive", "alibi",
     "isGuilty", "interviewed", "emoji", "imageUrl"}
init_raises(fields, keys) == ~(keys \subseteq fields)

\* The top of the Case Details script, run before any tab is drawn: the line
\* at which the run ends, or 0 when it goes on.  The run stops without a
\* selected case or a stored one, and get_image_data, which takes the url
\* alone, is called as get_image_data('case', case_id).
case_details_header(d, s) ==
    IF session_get(s, "selected_case_id") = None THEN 130
    ELSE IF session_get(s, "selected_case_id") \notin DOMAIN d.cases THEN 139
    ELSE IF call_raises(1, 2) THEN 157
    ELSE 0

\* The try block of "Examine This Clue"; analysis is what analyze_clue
\* returns to it.  The block ends at the first call that raises, the error is
\* shown and what was stored before stays.  save_clue_analysis takes
\* (clue_id, case_id, analysis) and is called with two arguments,
\* mark_clue_examined takes (clue_id) and is called with two.
examine_clue_handler(d, case_id, clue_id, analysis) ==
    IF init_raises(ClueFields, ClueColumns) THEN [db |-> d, line |-> 252]
    ELSE IF get_case_suspects(d, case_id) # {} /\ init_raises(SuspectFields, SuspectColumns)
        THEN [db |-> d, line |-> 261]
    ELSE IF call_raises(3, 2) THEN [db |-> d, line |-> 279]
    ELSE IF ~InsertAnalysis(d, clue_id, case_id, analysis).ok THEN [db |-> d, line |-> 279]
    ELSE IF call_raises(1, 2)
        THEN [db |-> InsertAnalysis(d, clue_id, case_id, analysis).db, line |-> 280]
    ELSE [db |-> MarkClueExaminedStatement(
                     InsertAnalysis(d, clue_id, case_id, analysis).db, clue_id).db,
          line |-> 283]

\* Faulty variant: a run whose calls all succeed, the analysis stored and
\* the clue marked
examine_clue_stores(d, s, clue_id, analysis) ==
    [db |-> MarkClueExaminedStatement(
                InsertAnalysis(d, clue_id, session_get(s, "selected_case_id"),
                               analysis).db, clue_id).db,
     line |-> 283]

\* The run of the Case Details script on a click on "Examine This Clue":
\* the store it leaves and the line at which the run or the handler ended
examine_clue_run(d, s, clue_id, analysis) ==
    IF case_details_header(d, s) # 0
    THEN [db |-> d, line |-> case_details_header(d, s)]
    ELSE examine_clue_handler(d, session_get(s, "selected_case_id"), clue_id, analysis)

\* The button is drawn for a clue of the selected case that is not among
\* get_examined_clues(case_id)
examine_clue_button(clue_id, analysis) ==
    /\ session_get(session_state, "selected_case_id") \in DOMAIN db.cases
    /\ clue_id \in DOMAIN db.clues
    /\ db.clues[clue_id].caseId = session_get(session_state, "selected_case_id")
    /\ clue_id \notin get_examined_clues(db, session_get(session_state,
                                                         "selected_case_id"))
    /\ LET r == examine_clue_run(db, session_state, clue_id, analysis)
       IN  /\ db' = r.db
           /\ last' = [op |-> "examine_clue_button",
                       arg |-> [case_id |-> session_get(session_state,
                                                        "selected_case_id"),
                                clue_id |-> clue_id, analysis |-> analysis],
                       raised |-> r.line = 157,
                       ret |-> r.line]
    /\ UNCHANGED <<clock, session_state>>

\* What analyze_solution does when the solve form calls it: it raises, or it
\* returns a CaseSolution that is solved or not
SolveOutcomes ==
    {[raised |-> TRUE, solved |-> FALSE], [raised |-> FALSE, solved |-> TRUE],
     [raised |-> FALSE, solved |-> FALSE]}

\* The handler of the solve form: the two checks of the form, then the try
\* block, which ends at the first call that raises
solve_form_handler(d, case_id, accused_id, evidence_ids, reasoning, solution) ==
    IF evidence_ids = <<>> THEN [db |-> d, line |-> 500]
    ELSE IF Len(reasoning) < 20 THEN [db |-> d, line |-> 502]
    ELSE IF get_case_suspects(d, case_id) # {} /\ init_raises(SuspectFields, SuspectColumns)
        THEN [db |-> d, line |-> 514]
    ELSE IF get_case_clues(d, case_id) # {} /\ init_raises(ClueFields, ClueColumns)
        THEN [db |-> d, line |-> 515]
    ELSE IF solution.raised THEN [db |-> d, line |-> 518]
    ELSE IF solution.solved
        THEN [db |-> get_db(d, UpdateCaseStatusStatements(d, case_id, "True", None)),
              line |-> 545]
    ELSE [db |-> d, line |-> 547]

\* Faulty variant: the case is marked solved whatever the form holds and
\* whatever the verdict is
solve_form_marks_solved(d, s, accused_id, evidence_ids, reasoning, solution) ==
    [db |-> get_db(d, UpdateCaseStatusStatements(
                          d, session_get(s, "selected_case_id"), "True", None)),
     line |-> 545]

\* The run of the Case Details script on "Submit Solution"
solve_form_run(d, s, accused_id, evidence_ids, reasoning, solution) ==
    IF case_details_header(d, s) # 0
    THEN [db |-> d, line |-> case_details_header(d, s)]
    ELSE solve_form_handler(d, session_get(s, "selected_case_id"), accused_id,
                            evidence_ids, reasoning, solution)

\* The form is drawn for a selected case that is not solved; the suspect is
\* picked among the suspects of the case (None without one) and the evidence
\* among its clues
submit_solution_button(accused_id, evidence_ids, reasoning, solution) ==
    /\ session_get(session_state, "selected_case_id") \in DOMAIN db.cases
    /\ LET case == get_case_by_id(db, session_get(session_state, "selected_case_id"))
       IN  /\ ~case.solved
           /\ IF case.suspects = {} THEN accused_id = None
              ELSE accused_id \in {x.id : x \in case.suspects}
           /\ \A i \in DOMAIN evidence_ids :
                 evidence_ids[i] \in {x.id : x \in case.clues}
    /\ LET r == solve_form_run(db, session_state, accused_id, evidence_ids,
                               reasoning, solution)
       IN  /\ db' = r.db
           /\ last' = [op |-> "submit_solution_button",
                       arg |-> [case_id |-> session_get(session_state,
                                                        "selected_case_id"),
                                accused_id |-> accused_id,
                                evidence_ids |-> evidence_ids,
                                reasoning |-> reasoning, solution |-> solution],
                       raised |-> r.line = 157,
                       ret |-> r.line]
    /\ UNCHANGED <<clock, session_state>>

(************************** specifications *********************************)
Init ==
    /\ db = EmptyDb
    /\ clock = 0
    /\ session_state = EmptyTable
    /\ last = [op |-> "init_database", arg |-> None, raised |-> FALSE, ret |-> None]

OptBool == {None, "True", "False"}

\* The rows a caller hands to save_case
CaseInputs(ids, titles, flags) ==
    [id : ids, title : titles, description : {"desc"},
     solved : flags, archived : flags, isLLMGenerated : flags]

ClueInputs(ids, titles, flags) ==
    [id : ids, title : titles, description : {"desc"},
     discovered : flags, examined : flags]

SuspectInputs(ids, names, flags) ==
    [id : ids, name : names, description : {"desc"},
     isGuilty : flags, interviewed : flags]

BundlesOf(cs, kl, sl) == [case : cs, clues : kl, suspects : sl, solution : {"sol"}]

\* Spec: cases saved with their clues and suspects (every flag false), then
\* updated, marked and deleted.
Bundles ==
    BundlesOf(CaseInputs(CaseIds, {"title"}, {FALSE}),
              ListsOf(ClueInputs(ClueIds, {"title"}, {FALSE})),
              ListsOf(SuspectInputs({"sus1"}, {"name"}, {FALSE})))

Next ==
    \/ \E b \in Bundles : save_case(b)
    \/ \E c \in CaseIds : delete_case(c)
    \/ \E c \in CaseIds, s, a \in OptBool : update_case_status(c, s, a)
    \/ \E k \in ClueIds : mark_clue_examined(k)
    \/ \E s \in SuspectIds : mark_suspect_interviewed(s)

Spec == Init /\ [][Next]_vars

\* SpecAtomic: bundles in which any row may lack its NOT NULL title or name
ClueOrder == <<"clue1", "clue2">>

AtomicBundles ==
    BundlesOf(CaseInputs(CaseIds, {"title", None}, {FALSE}),
              {l \in ListsOf(ClueInputs(ClueIds, {"title", None}, {FALSE})) :
                  \A i \in DOMAIN l : l[i].id = ClueOrder[i]},
              ListsOf(SuspectInputs({"sus1"}, {"name", None}, {FALSE})))

NextAtomic ==
    \/ \E b \in AtomicBundles : save_case(b)
    \/ \E c \in CaseIds : delete_case(c)

SpecAtomic == Init /\ [][NextAtomic]_vars

\* SpecFlags: one case with one clue and one suspect, every flag free
FlagBundles ==
    BundlesOf(CaseInputs({"caseA"}, {"title"}, BOOLEAN),
              ListsOf(ClueInputs({"clue1"}, {"title"}, BOOLEAN)),
              ListsOf(SuspectInputs({"sus1"}, {"name"}, BOOLEAN)))

NextFlags ==
    \/ \E b \in FlagBundles : save_case(b)
    \/ \E s, a \in OptBool : update_case_status("caseA", s, a)
    \/ mark_clue_examined("clue1")
    \/ mark_suspect_interviewed("sus1")

SpecFlags == Init /\ [][NextFlags]_vars

\* SpecCache: the cached analyses and the transcript of cases that are saved
\* and deleted
CacheBundles ==
    BundlesOf(CaseInputs(CaseIds, {"title"}, {FALSE}),
              {<<k>> : k \in ClueInputs({"clue1"}, {"title"}, {FALSE})},
              {<<s>> : s \in SuspectInputs({"sus1"}, {"name"}, {FALSE})})

Analyses ==
    [summary : Summaries \cup {None}, connections : {<<>>, <<"x", "y">>},
     nextSteps : {<<"x">>}]

NextCache ==
    \/ \E b \in CacheBundles : save_case(b)
    \/ \E c \in CaseIds : delete_case(c)
    \/ \E k \in ClueIds, c \in CaseIds, a \in Analyses : save_clue_analysis(k, c, a)
    \/ save_interview("sus1", "caseA", "q1", "a1")

SpecCache == Init /\ [][NextCache]_vars

\* SpecInterview: the transcript of two suspects of one case, while time passes
NextInterview ==
    \/ \E s \in SuspectIds, q \in Questions : save_interview(s, "caseA", q, "a1")
    \/ \E s \in SuspectIds : read_suspect_interviews(s)
    \/ Tick

SpecInterview == Init /\ [][NextInterview]_vars

\* SpecImages: blobs saved directly and through the image pipeline
ImageUrls == {"case/caseA", "logo"}
ItemTypes == {"case", "clue"}
ContentTypes == {"image/png", "image/jpeg"}

NextImages ==
    \/ \E u \in ImageUrls, data \in ImageBytes \cup {None}, ct \in ContentTypes :
          save_image_data(u, data, ct)
    \/ \E t \in ItemTypes : download_and_store_image("http://img", t, "caseA")

SpecImages == Init /\ [][NextImages]_vars

\* SpecList: cases with at most one clue saved and deleted while time passes
ListBundles ==
    BundlesOf(CaseInputs(CaseIds, {"title", "title2"}, {FALSE}),
              ListsOf(ClueInputs({"clue1"}, {"title"}, {FALSE})),
              {<<>>})

NextList ==
    \/ \E b \in ListBundles : save_case(b)
    \/ \E c \in CaseIds : delete_case(c)
    \/ Tick

SpecList == Init /\ [][NextList]_vars

\* SpecGenerate: generate_case on the answers of the gateway.  A payload is
\* an object with or without each of its keys; the gateway may also answer
\* with a fenced or truncated object, a text that is no object, or fail.
MaxPayloadSuspects == 2

CaseParts ==
    {EmptyTable,
     [case |-> JDict([id |-> JStr("case-1"), title |-> JStr("Lost Cat")])],
     [case |-> JNull]}

ClueDicts ==
    {JDict([title |-> JStr("Paw Print")]),
     JDict([id |-> JStr("clue-1"), item |-> JStr("Paw Print"),
            location |-> JStr(""), position_found |-> JStr("Garden")])}

CluesParts ==
    {EmptyTable, [clues |-> JStr("")]}
        \cup {[clues |-> JList(<<c>>)] : c \in ClueDicts}

SuspectDicts ==
    {JDict([name |-> JStr("Jamie")]),
     JDict([name |-> JStr("Jamie"), isGuilty |-> JBool(TRUE)]),
     JDict([name |-> JStr("Jamie"), isGuilty |-> JBool(FALSE)]),
     JDict([id |-> JStr("suspect-1"), name |-> JStr("Sam"),
            isGuilty |-> JBool(FALSE)])}

SuspectsParts ==
    {EmptyTable, [suspects |-> JNull]}
        \cup {[suspects |-> JList(l)] : l \in SeqsUpTo(SuspectDicts, MaxPayloadSuspects)}

SolutionParts ==
    {EmptyTable, [solution |-> JStr("The cat was in the shed")],
     [solution |-> JNull]}

CasePayloads ==
    {c @@ k @@ s @@ w : c \in CaseParts, k \in CluesParts,
                        s \in SuspectsParts, w \in SolutionParts}

Object(f) == <<LBrace, Members(f), RBrace>>

CaseResponses ==
    {Object(f) : f \in CasePayloads}
        \cup {<<Fence, JsonTag>> \o Object(f) \o <<Newline, Fence>> :
                f \in {[suspects |-> JList(<<>>)]}}
        \cup {<<LBrace, Members([suspects |-> JList(<<>>)])>>,
              <<Prose>>, <<Deep>>, <<LBracket, RBracket>>}

\* One value for the case, one for the clue and one for each suspect
UuidPool == {"uuid-" \o ToString(n) : n \in 1..(2 + MaxPayloadSuspects)}

\* uuid.uuid4() does not return a value twice
UuidDraws ==
    {ids \in [1..Cardinality(UuidPool) -> UuidPool] :
        \A i, j \in DOMAIN ids : i # j => ids[i] # ids[j]}

InitGenerate ==
    /\ db = EmptyDb
    /\ clock = 0
    /\ session_state = EmptyTable
    /\ \E g \in {GatewayError} \cup {GatewayText(r) : r \in CaseResponses} :
          last = [op |-> "fetch_openai_completion", arg |-> None,
                  raised |-> g.raised, ret |-> g]

NextGenerate == \E ids \in UuidDraws : generate_case(ids)

SpecGenerate == InitGenerate /\ [][NextGenerate]_vars

\* SpecClue: analyze_clue on the answers of the gateway, for the suspects of
\* a case.  The suspects are named "Ab" and "C"; a connection entry names its
\* suspect under 'suspect' or 'suspectName', or under neither.
MaxConnections == 2

ClueSuspects ==
    {[id |-> "sus1", name |-> <<"A", "b">>], [id |-> "sus2", name |-> <<"C">>]}

PayloadNames ==
    {<<>>, <<"a", "b">>, <<"A">>, <<"c">>, <<"A", "b", "C">>, <<"B", "B">>}

ConnDicts ==
    {JDict([suspect |-> JChars(n)]) : n \in PayloadNames}
        \cup {JDict([suspectName |-> JChars(<<"C">>), type |-> JStr("owner")]),
              JDict([suspect |-> JChars(<<>>), suspectName |-> JChars(<<"C">>)]),
              JDict([description |-> JStr("a paw print")]),
              JDict([suspect |-> JNull])}

ConnectionsParts ==
    {EmptyTable, [connections |-> JStr("none")]}
        \cup {[connections |-> JList(l)] : l \in SeqsUpTo(ConnDicts, MaxConnections)}

NextStepsParts ==
    {EmptyTable, [nextSteps |-> JList(<<>>)], [nextSteps |-> JList(<<JStr("Ask Sam")>>)],
     [nextSteps |-> JStr("Ask Sam")], [nextSteps |-> JNull]}

CluePayloads == {c @@ n : c \in ConnectionsParts, n \in NextStepsParts}

ClueResponses ==
    {Object(f) : f \in CluePayloads}
        \cup {<<Fence, JsonTag>> \o Object(f) \o <<Newline, Fence>> :
                f \in {[connections |-> JList(<<JDict([suspect |-> JChars(<<"C">>)])>>)]}}
        \cup {<<Prose>>, <<Deep>>, <<LBracket, RBracket>>, <<>>,
              <<LBrace, Members([summary |-> JStr("cut off")])>>,
              <<Prose, LBrace, Members([summary |-> JStr("one")]), RBrace, Prose,
                LBrace, Members([summary |-> JStr("two")]), RBrace>>,
              <<Fence, Prose, Fence>> \o Object([connections |-> JList(<<>>)])}

InitClue ==
    /\ db = EmptyDb
    /\ clock = 0
    /\ session_state = EmptyTable
    /\ \E g \in {GatewayError} \cup {GatewayText(r) : r \in ClueResponses},
          suspects \in ListsOf(ClueSuspects) :
          last = [op |-> "fetch_openai_completion", arg |-> [suspects |-> suspects],
                  raised |-> g.raised, ret |-> g]

NextClue == analyze_clue

SpecClue == InitClue /\ [][NextClue]_vars

\* SpecSuspect: analyze_suspect on the answers of the gateway, for the clues
\* of a case.  The score arrives as a number, a str, another value or not at
\* all.
Scores ==
    {JInt(n) : n \in {0 - 5, 0, 42, 100, 150}}
        \cup {JFloat(t) : t \in {0 - 25, 555, 1000, 1505}}
        \cup {JChars(c) : c \in {<<"1", "5", "0">>, <<"4", "2">>, <<"-", "7">>,
                                 <<" ", "4", "2", " ">>, <<"5", "5", ".", "5">>,
                                 <<"a", "b", "c">>, <<>>}}
        \cup {JNull, JBool(TRUE), JBool(FALSE), JList(<<>>)}

ScoreParts == {EmptyTable} \cup {[trustworthiness |-> t] : t \in Scores}

InconsistenciesParts ==
    {EmptyTable, [inconsistencies |-> JStr("the alibi changed")],
     [inconsistencies |-> JList(<<JStr("the alibi changed")>>)]}

SuspectClues == {[id |-> "clue1", title |-> <<"A", "b">>]}

ClueConnectionsParts ==
    {EmptyTable,
     [connections |-> JList(<<JDict([clue |-> JChars(<<"a">>)])>>)],
     [connections |-> JList(<<JDict([clueTitle |-> JChars(<<"C">>)])>>)],
     [connections |-> JList(<<JDict([clue |-> JNull])>>)]}

SuspectPayloads ==
    {t @@ i @@ c : t \in ScoreParts, i \in InconsistenciesParts,
                   c \in ClueConnectionsParts}

SuspectResponses ==
    {Object(f) : f \in SuspectPayloads}
        \cup {<<Fence, JsonTag>> \o Object(f) \o <<Newline, Fence>> :
                f \in {[trustworthiness |-> JInt(150)]}}
        \cup {<<Prose>>, <<Deep>>, <<Literal(JInt(42))>>}

InitSuspect ==
    /\ db = EmptyDb
    /\ clock = 0
    /\ session_state = EmptyTable
    /\ \E g \in {GatewayError} \cup {GatewayText(r) : r \in SuspectResponses},
          clues \in ListsOf(SuspectClues) :
          last = [op |-> "fetch_openai_completion",
                  arg |-> [clues |-> clues, suspect |-> "sus1"],
                  raised |-> g.raised, ret |-> g]

NextSuspect == analyze_suspect

SpecSuspect == InitSuspect /\ [][NextSuspect]_vars

\* SpecNormalize: each task's parse_json_response on texts that hold a JSON
\* document or a broken one, bare or fenced, with or without prose around it
Documents ==
    {Object([summary |-> JStr("ok")]),
     <<LBrace, RBrace>>,
     <<Literal(JInt(42))>>,
     <<LBracket>> \o Object([summary |-> JStr("ok")]) \o <<RBracket>>,
     <<LBracket, RBracket>>,
     <<LBrace, Members([summary |-> JStr("cut off")])>>,
     Object([summary |-> JStr("one")]) \o <<Prose>> \o Object([summary |-> JStr("two")]),
     <<Prose>>,
     <<Deep>>,
     <<>>}

Fenced(doc) ==
    {doc,
     <<Fence, JsonTag>> \o doc \o <<Newline, Fence>>,
     <<Fence, JsonTag>> \o doc \o <<Fence>>,
     <<Fence, JsonTag>> \o doc,
     <<Fence, Json>> \o doc \o <<Fence>>,
     <<Fence, Newline>> \o doc \o <<Newline, Fence>>,
     <<Fence>> \o doc \o <<Fence>>}

Texts ==
    {before \o body \o after :
        before \in {<<>>, <<Prose>>},
        body \in UNION {Fenced(doc) : doc \in Documents},
        after \in {<<>>, <<Prose>>}}

InitNormalize ==
    /\ db = EmptyDb
    /\ clock = 0
    /\ session_state = EmptyTable
    /\ \E r \in Texts :
          last = [op |-> "fetch_openai_completion", arg |-> None,
                  raised |-> FALSE, ret |-> GatewayText(r)]

NextNormalize ==
    \/ parse_case_response
    \/ parse_clue_response
    \/ parse_suspect_response
    \/ parse_solution_response

SpecNormalize == InitNormalize /\ [][NextNormalize]_vars

\* SpecSolve: analyze_solution, called directly and through the solve-case
\* endpoint, on the outcome of the gateway, for the suspects of a case.  An
\* answer may carry its own verdict and culprit next to the narrative.
SolveSuspects ==
    {[id |-> "sus1", name |-> <<"A", "b">>, isGuilty |-> g] : g \in BOOLEAN}
        \cup {[id |-> "sus2", name |-> <<"C">>, isGuilty |-> g] : g \in BOOLEAN}

SolveSuspectLists ==
    {l \in SeqsUpTo(SolveSuspects, 2) :
        \A i, j \in DOMAIN l : i # j => l[i].id # l[j].id}

SolutionPayloads ==
    {EmptyTable,
     [narrative |-> JStr("Well reasoned, detective")],
     [narrative |-> JStr("")],
     [narrative |-> JNull, explanation |-> JStr("The paw print gave it away")],
     [description |-> JStr("A case about a cat")],
     [narrative |-> JInt(7)],
     [narrative |-> JList(<<>>)],
     [solved |-> JBool(TRUE), culpritId |-> JStr("sus2"),
      narrative |-> JStr("Correct, it was C")],
     [solved |-> JBool(FALSE), culpritId |-> JStr("sus1"),
      narrative |-> JStr("Wrong, it was Ab")]}

SolutionResponses ==
    {Object(f) : f \in SolutionPayloads}
        \cup {<<Fence, JsonTag>> \o Object(f) \o <<Newline, Fence>> :
                f \in {[narrative |-> JStr("Well reasoned, detective")]}}
        \cup {<<Prose>>, <<>>, <<Deep>>, <<LBracket, RBracket>>, <<Literal(JInt(42))>>,
              <<LBrace, Members([narrative |-> JStr("cut off")])>>}

SolveGateways == {GatewayError} \cup {GatewayText(r) : r \in SolutionResponses}

AccusedIds == {"sus1", "sus2", "sus3"}
EvidenceIdLists == {<<>>, <<"clue1">>}
Reasonings == {"", "The paw print is hers"}
Languages == {"en", "th"}

InitSolve ==
    /\ db = EmptyDb
    /\ clock = 0
    /\ session_state = EmptyTable
    /\ \E g \in SolveGateways, suspects \in SolveSuspectLists :
          last = [op |-> "fetch_openai_completion", arg |-> [suspects |-> suspects],
                  raised |-> g.raised, ret |-> g]

NextSolve ==
    \E accused_suspect_id \in AccusedIds, evidence_ids \in EvidenceIdLists,
       reasoning \in Reasonings, language \in Languages :
        \/ analyze_solution(accused_suspect_id, evidence_ids, reasoning, language)
        \/ do_POST(accused_suspect_id, evidence_ids, reasoning, language)

SpecSolve == InitSolve /\ [][NextSolve]_vars

\* SpecService: the five service operations on the outcome of the gateway,
\* which is an exception or an answer
ServiceResponses ==
    {<<Prose>>, <<>>, Object(EmptyTable),
     Object([narrative |-> JStr("Well reasoned, detective")]),
     Object([summary |-> JStr("A paw print"),
             connections |-> JList(<<JDict([suspect |-> JChars(<<"C">>)])>>)]),
     Object([trustworthiness |-> JInt(70)]),
     Object([suspects |-> JList(<<JDict([name |-> JStr("Jamie")])>>)])}

InitService ==
    /\ db = EmptyDb
    /\ clock = 0
    /\ session_state = EmptyTable
    /\ \E g \in {GatewayError} \cup {GatewayText(r) : r \in ServiceResponses},
          suspects \in SolveSuspectLists, clues \in ListsOf(SuspectClues) :
          last = [op |-> "fetch_openai_completion",
                  arg |-> [suspects |-> suspects, clues |-> clues, suspect |-> "sus1"],
                  raised |-> g.raised, ret |-> g]

NextService ==
    \/ \E ids \in UuidDraws : generate_case(ids)
    \/ analyze_clue
    \/ analyze_suspect
    \/ process_interview_question
    \/ \E accused_suspect_id \in AccusedIds, language \in Languages :
          analyze_solution(accused_suspect_id, <<"clue1">>, "The paw print is hers",
                           language)

SpecService == InitService /\ [][NextService]_vars

\* SpecPages: one browser session on the All Cases and Case Details pages,
\* over cases that save_case stored
PageBundles ==
    BundlesOf([id : CaseIds, title : {"title"}, description : {"desc"},
               solved : BOOLEAN, archived : {FALSE}, isLLMGenerated : {FALSE}],
              {<<k>> : k \in ClueInputs({"clue1"}, {"title"}, {FALSE})},
              {<<>>} \cup {<<x>> : x \in SuspectInputs({"sus1"}, {"name"}, {TRUE})})

PageAnalyses == {a \in Analyses : a.summary = "sum1" /\ a.connections = <<>>}

PageReasonings == {"", "It was her", "The paw print is hers"}

PageOps ==
    {"investigate_button", "archive_button", "delete_button",
     "examine_clue_button", "submit_solution_button"}

NextPages ==
    \/ \E b \in PageBundles : save_case(b)
    \/ \E c \in CaseIds : investigate_button(c)
    \/ \E c \in CaseIds : archive_button(c)
    \/ \E c \in CaseIds : delete_button(c)
    \/ \E k \in ClueIds, a \in PageAnalyses : examine_clue_button(k, a)
    \/ \E x \in SuspectIds \cup {None}, e \in {<<>>, <<"clue1">>},
          t \in PageReasonings, o \in SolveOutcomes :
          submit_solution_button(x, e, t, o)

SpecPages == Init /\ [][NextPages]_vars

(******************************* claims ************************************)
IdsOf(rows) == {r.id : r \in rows}
ListIds(list) == {list[i].id : i \in DOMAIN list}

\* C1: every stored clue row and every stored suspect row has a caseId that
\* is the id of a case row currently stored.
C1_ChildRowsReferenceStoredCase ==
    /\ \A k \in DOMAIN db.clues : db.clues[k].caseId \in DOMAIN db.cases
    /\ \A s \in DOMAIN db.suspects : db.suspects[s].caseId \in DOMAIN db.cases

\* C2: after delete_case(id) on a stored case, get_clue_analysis returns None
\* for every clue that belonged to the case (and whose cached analysis
\* references the case), and get_suspect_interviews returns the empty list for
\* every suspect that belonged to it (and whose entries reference the case).
C2_DeleteCascadesToCaches ==
    [][(last'.op = "delete_case" /\ last'.arg \in DOMAIN db.cases) =>
        /\ \A k \in DOMAIN db.clues :
              (/\ db.clues[k].caseId = last'.arg
               /\ k \in DOMAIN db.clue_analyses
               /\ db.clue_analyses[k].case_id = last'.arg)
              => get_clue_analysis(db', k) = NotFound
        /\ \A s \in DOMAIN db.suspects :
              (/\ db.suspects[s].caseId = last'.arg
               /\ \A i \in DOMAIN db.suspect_interviews :
                     db.suspect_interviews[i].suspect_id = s
                     => db.suspect_interviews[i].case_id = last'.arg)
              => get_suspect_interviews(db', s) = {<<>>}]_vars

\* C3: after delete_case(id) on a stored case, get_case_by_id(id) returns None
\* and no list get_all_cases may return holds a case with that id, while every
\* other stored case is still in that list exactly as it was read before.
C3_DeleteRemovesOnlyThatCase ==
    [][(last'.op = "delete_case" /\ last'.arg \in DOMAIN db.cases) =>
        /\ ~last'.raised
        /\ get_case_by_id(db', last'.arg) = NotFound
        /\ \A l \in get_all_cases(db') :
              /\ \A i \in DOMAIN l : l[i].id # last'.arg
              /\ \A c \in (DOMAIN db.cases) \ {last'.arg} :
                    \E i \in DOMAIN l : l[i] = get_case_by_id(db, c)]_vars

C3_Witness ==
    /\ last.op = "delete_case"
    /\ last.arg \notin DOMAIN db.cases
    /\ \E k \in DOMAIN db.clues : db.clues[k].caseId = last.arg
    /\ \E c \in DOMAIN db.cases : get_case_by_id(db, c).clues # {}

\* C4: a save_case in which some row of the bundle lacks a NOT NULL value
\* raises and leaves the store exactly as it was before the call.
BundleHasNull(b) ==
    \/ b.case.title = None
    \/ \E i \in DOMAIN b.clues : b.clues[i].title = None
    \/ \E i \in DOMAIN b.suspects : b.suspects[i].name = None

C4_SaveCaseAtomic ==
    [][last'.op = "save_case" =>
        /\ BundleHasNull(last'.arg) <=> last'.raised
        /\ last'.raised => db' = db]_vars

\* the second clue fails after the case row and the first clue were written,
\* and neither is in the store
C4_Witness ==
    /\ last.op = "save_case" /\ last.raised
    /\ last.arg.case.title # None
    /\ Len(last.arg.clues) = 2
    /\ last.arg.clues[1].title # None
    /\ last.arg.clues[2].title = None
    /\ last.arg.case.id \notin DOMAIN db.cases
    /\ last.arg.clues[1].id \notin DOMAIN db.clues
    /\ DOMAIN db.cases # {}

\* C5: after a save_case(bundle) that succeeds, get_case_by_id(bundle.case.id)
\* returns a case whose clue ids are exactly the bundle's clue ids and whose
\* suspect ids are exactly the bundle's suspect ids.
C5_SavedIdSetsRoundTrip ==
    (last.op = "save_case" /\ ~last.raised) =>
        LET c == get_case_by_id(db, last.arg.case.id) IN
        /\ c # NotFound
        /\ IdsOf(c.clues) = ListIds(last.arg.clues)
        /\ IdsOf(c.suspects) = ListIds(last.arg.suspects)

\* C6: after save_case(bundle), get_case_by_id returns solved, archived and
\* isLLMGenerated of the case, discovered and examined of every clue, and
\* isGuilty and interviewed of every suspect equal to the booleans saved.
C6_FlagsRoundTrip ==
    (last.op = "save_case" /\ ~last.raised) =>
        LET b == last.arg
            c == get_case_by_id(db, b.case.id) IN
        /\ c # NotFound
        /\ c.solved = b.case.solved
        /\ c.archived = b.case.archived
        /\ c.isLLMGenerated = b.case.isLLMGenerated
        /\ \A i \in DOMAIN b.clues : \E k \in c.clues :
              /\ k.id = b.clues[i].id
              /\ k.discovered = b.clues[i].discovered
              /\ k.examined = b.clues[i].examined
        /\ \A i \in DOMAIN b.suspects : \E u \in c.suspects :
              /\ u.id = b.suspects[i].id
              /\ u.isGuilty = b.suspects[i].isGuilty
              /\ u.interviewed = b.suspects[i].interviewed

\* flags that differ from one another were saved and read back
C6_Witness ==
    /\ last.op = "save_case" /\ ~last.raised
    /\ last.arg.case.solved /\ ~last.arg.case.archived
    /\ Len(last.arg.clues) = 1 /\ Len(last.arg.suspects) = 1
    /\ ~last.arg.clues[1].discovered /\ last.arg.clues[1].examined
    /\ last.arg.suspects[1].isGuilty /\ ~last.arg.suspects[1].interviewed
    /\ get_case_by_id(db, last.arg.case.id).solved

\* C7: in every store, mark_clue_examined(id) twice leaves the store as
\* mark_clue_examined(id) once does, the clue's examined flag is then true,
\* and neither call raises; likewise mark_suspect_interviewed(id).
C7_MarkIdempotent ==
    /\ \A k \in ClueIds :
          LET r1 == MarkClueExaminedStatement(db, k)
              d1 == get_db(db, r1)
              r2 == MarkClueExaminedStatement(d1, k)
              d2 == get_db(d1, r2)
          IN /\ r1.ok /\ r2.ok
             /\ d2 = d1
             /\ k \in DOMAIN db.clues =>
                   k \in get_examined_clues(d2, db.clues[k].caseId)
    /\ \A u \in SuspectIds :
          LET r1 == MarkSuspectInterviewedStatement(db, u)
              d1 == get_db(db, r1)
              r2 == MarkSuspectInterviewedStatement(d1, u)
              d2 == get_db(d1, r2)
          IN /\ r1.ok /\ r2.ok
             /\ d2 = d1
             /\ u \in DOMAIN db.suspects =>
                   u \in get_interviewed_suspects(d2, db.suspects[u].caseId)
    /\ last.op = "mark_clue_examined" =>
          /\ ~last.raised
          /\ last.arg \in DOMAIN db.clues => db.clues[last.arg].examined = 1
    /\ last.op = "mark_suspect_interviewed" =>
          /\ ~last.raised
          /\ last.arg \in DOMAIN db.suspects => db.suspects[last.arg].interviewed = 1

\* a stored clue was just marked while another clue of the store is not
\* examined, and a suspect is already interviewed
C7_Witness ==
    /\ last.op = "mark_clue_examined"
    /\ last.arg \in DOMAIN db.clues
    /\ last.arg \in get_examined_clues(db, db.clues[last.arg].caseId)
    /\ \E k \in DOMAIN db.clues : db.clues[k].examined = 0
    /\ \E u \in DOMAIN db.suspects : db.suspects[u].interviewed = 1

\* C8: update_case_status(id, solved, archived) leaves a flag passed as None
\* unchanged, sets a flag passed as True or False to that value whatever the
\* other flag is, and changes no other field of the case, no other case and
\* no clue or suspect row.
C8_UpdateCaseStatusPartial ==
    [][last'.op = "update_case_status" =>
        LET id == last'.arg[1]
            solved == last'.arg[2]
            archived == last'.arg[3]
        IN
        /\ ~last'.raised
        /\ db'.clues = db.clues
        /\ db'.suspects = db.suspects
        /\ db'.clue_analyses = db.clue_analyses
        /\ db'.suspect_interviews = db.suspect_interviews
        /\ DOMAIN db'.cases = DOMAIN db.cases
        /\ \A c \in DOMAIN db.cases : c # id => db'.cases[c] = db.cases[c]
        /\ id \in DOMAIN db.cases =>
              get_case_by_id(db', id) =
                  [get_case_by_id(db, id) EXCEPT
                      !.solved = IF solved = None THEN @ ELSE solved = "True",
                      !.archived = IF archived = None THEN @ ELSE archived = "True"]
    ]_vars

\* archived was set with solved passed as None, and solved is still true
C8_Witness ==
    /\ last.op = "update_case_status"
    /\ last.arg[2] = None /\ last.arg[3] = "True"
    /\ last.arg[1] \in DOMAIN db.cases
    /\ get_case_by_id(db, last.arg[1]).solved
    /\ get_case_by_id(db, last.arg[1]).archived
    /\ get_case_by_id(db, last.arg[1]).clues # {}
    /\ \E c \in DOMAIN db.cases : c # last.arg[1] /\ ~get_case_by_id(db, c).archived

\* C9: get_clue_analysis(clueId) returns None while no analysis was saved for
\* the clue, and after each save_clue_analysis that succeeds it returns the
\* summary, connections and nextSteps of that save for its clue id and what
\* it returned before for every other clue id.
C9_AnalysisOverwrite ==
    /\ \A k \in ClueIds : get_clue_analysis(db, k) = NotFound
    /\ [][/\ last'.op = "save_clue_analysis" =>
                \A k \in ClueIds :
                    get_clue_analysis(db', k) =
                        IF k = last'.arg[1] /\ ~last'.raised
                        THEN [summary |-> last'.arg[3].summary,
                              connections |-> last'.arg[3].connections,
                              nextSteps |-> last'.arg[3].nextSteps]
                        ELSE get_clue_analysis(db, k)
          /\ last'.op # "save_clue_analysis" =>
                \A k \in ClueIds :
                    get_clue_analysis(db, k) = NotFound
                    => get_clue_analysis(db', k) = NotFound]_vars

\* the last save replaced nothing of the other clue's analysis, which differs
C9_Witness ==
    /\ last.op = "save_clue_analysis" /\ ~last.raised
    /\ get_clue_analysis(db, last.arg[1]).summary = last.arg[3].summary
    /\ get_clue_analysis(db, last.arg[1]).connections = <<"x", "y">>
    /\ \E k \in ClueIds \ {last.arg[1]} :
          /\ get_clue_analysis(db, k) # NotFound
          /\ get_clue_analysis(db, k).summary # last.arg[3].summary
          /\ get_clue_analysis(db, k).connections = <<>>

\* The question/answer pairs saved for a suspect, in the order of the calls
CallOrder(d, suspect_id) ==
    LET mine == SelectSeq(d.suspect_interviews,
                          LAMBDA r : r.suspect_id = suspect_id)
    IN [n \in DOMAIN mine |-> [question |-> mine[n].question,
                               answer |-> mine[n].answer]]

\* C10: get_suspect_interviews(suspectId) returns exactly the question/answer
\* pairs passed to save_interview for that suspect, in the order of the calls,
\* also when several entries were saved within the same second.
C10_TranscriptInCallOrder ==
    last.op = "get_suspect_interviews" => last.ret = CallOrder(db, last.arg)

\* C11: the image store keeps one blob per key.  No key has a blob before
\* its first save; a save_image_data call that returns makes get_image_data of
\* its key return exactly the data and content type it was given, and a
\* download_and_store_image call that returns makes the key
\* "<item_type>/<item_id>" return the downloaded bytes; either leaves what
\* every other key returns as it was, and a call that raises leaves every key
\* as it was.  So each key returns its most recent save, or nothing.
ImageKeys ==
    ImageUrls \cup {url_identifier(t, "caseA") : t \in ItemTypes}
              \cup {"suspect/sus1"}

OtherImagesKept(key) ==
    \A k \in ImageKeys \ {key} : get_image_data(db', k) = get_image_data(db, k)

C11_ImageStoreStep ==
    /\ (last'.op = "save_image_data" /\ ~last'.raised) =>
          /\ get_image_data(db', last'.arg[1]) =
                [data |-> last'.arg[2], content_type |-> last'.arg[3]]
          /\ OtherImagesKept(last'.arg[1])
    /\ (last'.op = "download_and_store_image" /\ ~last'.raised) =>
          LET key == last'.arg[2] \o "/" \o last'.arg[3] IN
          /\ get_image_data(db', key) =
                [data |-> last'.ret, content_type |-> "image/png"]
          /\ OtherImagesKept(key)
    /\ last'.raised => OtherImagesKept("")

C11_ImageStoreLastSaveWins ==
    /\ \A k \in ImageKeys : get_image_data(db, k) = NotFound
    /\ [][C11_ImageStoreStep]_vars

\* A key saved through the pipeline is saved again directly with another
\* content type, while one key has a blob from the pipeline and one has none
C11_Witness ==
    /\ last.op = "save_image_data" /\ ~last.raised
    /\ last.arg = <<"case/caseA", "png2", "image/jpeg">>
    /\ get_image_data(db, "case/caseA") =
          [data |-> "png2", content_type |-> "image/jpeg"]
    /\ get_image_data(db, "clue/caseA") =
          [data |-> "png1", content_type |-> "image/png"]
    /\ get_image_data(db, "suspect/sus1") = NotFound

\* C12: get_all_cases lists the stored cases newest first.  When save_case
\* creates a case that was not stored, every list get_all_cases may then
\* return holds each stored case exactly once, each as get_case_by_id returns
\* it, and begins with the case just created.
C12_Listing(d, l) ==
    /\ Len(l) = Cardinality(DOMAIN d.cases)
    /\ {l[i].id : i \in DOMAIN l} = DOMAIN d.cases
    /\ \A i \in DOMAIN l : l[i] = get_case_by_id(d, l[i].id)

C12_NewestCaseListedFirst ==
    [][(last'.op = "save_case" /\ ~last'.raised
            /\ last'.ret \notin DOMAIN db.cases) =>
          \A l \in get_all_cases(db') :
              C12_Listing(db', l) /\ l[1].id = last'.ret]_vars

\* The part of C12 that does not depend on the order: in every store, every
\* list get_all_cases may return holds each case once, as get_case_by_id
\* returns it.
C12_ListingComplete == \A l \in get_all_cases(db) : C12_Listing(db, l)

\* C13: every bundle generate_case returns has at least one suspect whose
\* isGuilty flag is set, whatever the gateway answered.
C13_SomeSuspectGuilty ==
    last.op = "generate_case" =>
        \E j \in DOMAIN last.ret.suspects : Truthy(last.ret.suspects[j].isGuilty)

\* C14: in every bundle generate_case returns, at most one suspect is marked
\* guilty.
C14_AtMostOneGuilty ==
    last.op = "generate_case" =>
        Cardinality({j \in DOMAIN last.ret.suspects :
                        Truthy(last.ret.suspects[j].isGuilty)}) <= 1

\* C15: in every bundle generate_case returns, the ids of the case, of the
\* clues and of the suspects are the values uuid4 returned during the
\* formatting, in call order, whatever id the payload carried; they are
\* pairwise distinct, and every clue and suspect carries the case's id as its
\* caseId.
BundleIds(b) ==
    <<b.case.id>> \o [i \in DOMAIN b.clues |-> b.clues[i].id]
                  \o [j \in DOMAIN b.suspects |-> b.suspects[j].id]

C15_FreshDistinctIds ==
    last.op = "generate_case" =>
        LET b == last.ret
            all == BundleIds(b) IN
        /\ \A i \in DOMAIN all : all[i] = last.arg.uuid4[i]
        /\ \A i, j \in DOMAIN all : i # j => all[i] # all[j]
        /\ \A i \in DOMAIN b.clues : b.clues[i].caseId = b.case.id
        /\ \A j \in DOMAIN b.suspects : b.suspects[j].caseId = b.case.id

\* A payload whose case, clue and second suspect carry ids of their own is
\* formatted into a bundle of one clue and two suspects
C15_Witness ==
    /\ last.op = "generate_case"
    /\ ~last.arg.gateway.raised
    /\ LET p == case_generator_parse_json_response(last.arg.gateway.text) IN
       /\ ~p.raised
       /\ ~format_generated_case_raises(p.value)
       /\ "id" \in DOMAIN ValueOf(Get(p.value, "case", JDict(EmptyTable)))
       /\ Len(ListItems(Get(p.value, "clues", JList(<<>>)))) = 1
       /\ "id" \in DOMAIN ValueOf(ListItems(Get(p.value, "clues", JList(<<>>)))[1])
       /\ Len(ListItems(Get(p.value, "suspects", JList(<<>>)))) = 2
       /\ "id" \in DOMAIN ValueOf(ListItems(Get(p.value, "suspects", JList(<<>>)))[2])
    /\ Len(last.ret.clues) = 1
    /\ Len(last.ret.suspects) = 2

\* C16: when the text the gateway returned to analyze_clue holds no parseable
\* JSON (json.loads fails on the candidate extracted from it), the analysis
\* returned has no connections and at least one next step, and the call does
\* not raise.
Unparseable(r) == ~loads(json_content(r)).ok

C16_UnparseableGivesDegradedAnalysis ==
    (/\ last.op = "analyze_clue"
     /\ ~last.arg.gateway.raised
     /\ Unparseable(last.arg.gateway.text)) =>
        /\ ~last.raised
        /\ last.ret.connections = <<>>
        /\ Len(last.ret.nextSteps) > 0

\* An answer of prose around two objects is analysed with two suspects: the
\* default of the parse is formatted, not the fallback of analyze_clue
C16_Witness ==
    /\ last.op = "analyze_clue"
    /\ ~last.arg.gateway.raised
    /\ Unparseable(last.arg.gateway.text)
    /\ search_braces(last.arg.gateway.text).found
    /\ Len(last.arg.suspects) = 2
    /\ last.ret.summary = JText(last.arg.gateway.text)
    /\ last.ret.nextSteps = <<JStr("Continue investigating")>>

\* analyze_clue returned what format_clue_analysis made of the parsed answer
ClueFormatted ==
    /\ last.op = "analyze_clue"
    /\ ~last.arg.gateway.raised
    /\ ~clue_analyzer_parse_json_response(last.arg.gateway.text).raised
    /\ ~format_clue_analysis_raises(
            clue_analyzer_parse_json_response(last.arg.gateway.text).value,
            last.arg.suspects)

ClueEntries == connections_data(clue_analyzer_parse_json_response(last.arg.gateway.text).value)

\* The connections that result when the entries at the positions K are kept
\* and entry i is resolved through the name name[i]
Resolved(K, name) ==
    [n \in 1..Cardinality(K) |->
        last.arg.suspects[Least(matching_suspects(last.arg.suspects,
                                                  name[Nth(K, n)]))].id]

\* C17: the connections of a formatted clue analysis are those of the entries
\* that name a suspect (carry 'suspect' or 'suspectName') and whose name
\* matches a supplied suspect by containment in either direction, letter case
\* ignored, each with the id of the first such suspect in list order; an
\* entry that names no suspect is dropped.
C17_ConnectionsResolveNamedSuspects ==
    ClueFormatted =>
        LET name == [i \in DOMAIN ClueEntries |-> ValueOf(suspect_name(ClueEntries[i]))]
            named == {i \in DOMAIN ClueEntries :
                        \/ "suspect" \in DOMAIN ValueOf(ClueEntries[i])
                        \/ "suspectName" \in DOMAIN ValueOf(ClueEntries[i])}
            kept == {i \in named : matching_suspects(last.arg.suspects, name[i]) # {}}
        IN  [n \in DOMAIN last.ret.connections |-> last.ret.connections[n].suspectId]
                = Resolved(kept, name)

\* C18: the name of a connection entry is the first of 'suspect' and
\* 'suspectName' that is present and not empty: a formatted clue analysis
\* holds the connections of the entries whose name, so chosen, matches a
\* supplied suspect.
first_non_empty(conn) ==
    IF "suspect" \in DOMAIN ValueOf(conn) /\ Truthy(ValueOf(conn)["suspect"])
        THEN ValueOf(conn)["suspect"]
    ELSE IF "suspectName" \in DOMAIN ValueOf(conn) /\ Truthy(ValueOf(conn)["suspectName"])
        THEN ValueOf(conn)["suspectName"]
    ELSE JChars(<<>>)

C18_FirstNonEmptyAliasUsed ==
    ClueFormatted =>
        LET name == [i \in DOMAIN ClueEntries |-> ValueOf(first_non_empty(ClueEntries[i]))]
            kept == {i \in DOMAIN ClueEntries :
                        matching_suspects(last.arg.suspects, name[i]) # {}}
        IN  [n \in DOMAIN last.ret.connections |-> last.ret.connections[n].suspectId]
                = Resolved(kept, name)

\* C19: the trustworthiness of every analysis analyze_suspect returns is an
\* integer from 0 to 100, whatever the payload carried under
\* 'trustworthiness' (True and False count as the integers 1 and 0).
C19_TrustworthinessIntegerInRange ==
    last.op = "analyze_suspect" =>
        /\ TypeOf(last.ret.trustworthiness) \in {"int", "bool"}
        /\ Tenths(last.ret.trustworthiness) >= 0
        /\ Tenths(last.ret.trustworthiness) <= 1000

\* The part of C19 about range: whatever its type, the score is a number from
\* 0 to 100.
C19_TrustworthinessInRange ==
    last.op = "analyze_suspect" =>
        /\ Tenths(last.ret.trustworthiness) >= 0
        /\ Tenths(last.ret.trustworthiness) <= 1000

\* C20: parse_json_response of every task returns for every text, and what
\* it returns is a mapping; when the candidate extracted from the text is not
\* parseable it is the degraded default of that operation (case generation defines no
\* default to compare with).
DegradedDefault(task, response) ==
    CASE task = "clue_analyzer" ->
            JDict([summary |-> JText(response), connections |-> JList(<<>>),
                   nextSteps |-> JList(<<>>)])
      [] task = "suspect_analyzer" ->
            JDict([trustworthiness |-> JInt(50), inconsistencies |-> JList(<<>>),
                   connections |-> JList(<<>>), suggestedQuestions |-> JList(<<>>)])
      [] task = "case_solver" -> JDict([narrative |-> JText(response)])

C20_NormalizerNeverRaises ==
    last.op = "parse_json_response" =>
        /\ ~last.raised
        /\ TypeOf(last.ret.value) = "dict"
        /\ (Unparseable(last.arg.response) /\ last.arg.task # "case_generator") =>
              last.ret.value = DegradedDefault(last.arg.task, last.arg.response)

\* The part of C20 that holds: the three analysis tasks return their degraded
\* default whenever json.loads reports a decode error on the candidate.
C20_AnalysisTasksDegrade ==
    (/\ last.op = "parse_json_response"
     /\ last.arg.task # "case_generator"
     /\ loads(json_content(last.arg.response)).error = "JSONDecodeError") =>
        /\ ~last.raised
        /\ last.ret.value = DegradedDefault(last.arg.task, last.arg.response)

\* C21: whenever parse_json_response of clue analysis, suspect analysis or
\* solution grading falls back to its degraded default because json.loads
\* reports a decode error, one field of the returned default is the raw
\* response text.
CarriesRawText(value, response) ==
    /\ TypeOf(value) = "dict"
    /\ \E k \in DOMAIN ValueOf(value) : ValueOf(value)[k] = JText(response)

FellBack ==
    /\ last.op = "parse_json_response"
    /\ last.arg.task # "case_generator"
    /\ loads(json_content(last.arg.response)).error = "JSONDecodeError"

C21_DefaultCarriesRawText ==
    FellBack => CarriesRawText(last.ret.value, last.arg.response)

\* The part of C21 that holds: the defaults of clue analysis and of solution
\* grading carry the raw text (as summary and as narrative).
C21_ClueAndSolutionDefaultsCarryRawText ==
    (FellBack /\ last.arg.task \in {"clue_analyzer", "case_solver"}) =>
        CarriesRawText(last.ret.value, last.arg.response)

\* C22: when the gateway call fails, none of generate_case, analyze_clue,
\* analyze_suspect, process_interview_question and analyze_solution (with an
\* accusation that passes validation) raises: each returns a result.
ServiceOperations ==
    {"generate_case", "analyze_clue", "analyze_suspect",
     "process_interview_question", "analyze_solution"}

GatewayFailed ==
    /\ last.op \in ServiceOperations
    /\ last.arg.gateway.raised
    /\ last.op = "analyze_solution" =>
          validation_error(last.arg.suspects, last.arg.accusedSuspectId) = None

C22_GatewayFailureNeverPropagates == GatewayFailed => ~last.raised

\* The part of C22 that holds: the four operations other than
\* process_interview_question return their fallback result when the gateway
\* call fails.
C22_FourOperationsFallBack ==
    (GatewayFailed /\ last.op # "process_interview_question") =>
        /\ ~last.raised
        /\ last.op = "generate_case" =>
              last.ret = format_generated_case(FALLBACK_CASE, last.arg.uuid4)
        /\ last.op = "analyze_clue" =>
              /\ last.ret.connections = <<>>
              /\ Len(last.ret.nextSteps) = 2
        /\ last.op = "analyze_suspect" =>
              /\ last.ret.trustworthiness = JInt(50)
              /\ last.ret.connections = <<>>
        /\ last.op = "analyze_solution" =>
              last.ret.value = create_fallback_solution(
                                   last.arg.accusedSuspectId, last.arg.evidenceIds,
                                   last.arg.reasoning,
                                   is_correct(last.arg.suspects,
                                              last.arg.accusedSuspectId),
                                   last.arg.language)

\* C23: whenever analyze_solution returns, solved is true exactly when the
\* accused suspect is a suspect of the case marked guilty, culpritId is the
\* accused id and the narrative is not empty, whatever the gateway did.
AccusedIsGuilty ==
    \E i \in DOMAIN last.arg.suspects :
        /\ last.arg.suspects[i].id = last.arg.accusedSuspectId
        /\ last.arg.suspects[i].isGuilty

C23_SolvedIffAccusedGuilty ==
    (last.op = "analyze_solution" /\ ~last.raised) =>
        /\ last.ret.value.solved = AccusedIsGuilty
        /\ last.ret.value.culpritId = last.arg.accusedSuspectId
        /\ Truthy(last.ret.value.narrative)

\* The part of C23 that holds: the verdict is computed from the suspects
\* alone, as "the accused is the first suspect marked guilty"; with one
\* guilty suspect in the case that is the claim.
C23_SolvedIffAccusedFirstGuilty ==
    (last.op = "analyze_solution" /\ ~last.raised) =>
        /\ last.ret.value.solved =
              (last.arg.accusedSuspectId
                   = last.arg.suspects[guilty_suspect(last.arg.suspects)].id)
        /\ Cardinality({i \in DOMAIN last.arg.suspects :
                           last.arg.suspects[i].isGuilty}) = 1 =>
              last.ret.value.solved = AccusedIsGuilty
        /\ last.ret.value.culpritId = last.arg.accusedSuspectId
        /\ Truthy(last.ret.value.narrative)

\* C24: when the accused id matches no supplied suspect, or no supplied
\* suspect is marked guilty, analyze_solution raises its validation error
\* without calling the gateway and without returning a result, and the
\* solve-case endpoint answers 500 with an error body.
InvalidAccusation ==
    /\ last.op \in {"analyze_solution", "do_POST"}
    /\ \/ ~\E i \in DOMAIN last.arg.suspects :
              last.arg.suspects[i].id = last.arg.accusedSuspectId
       \/ ~\E i \in DOMAIN last.arg.suspects : last.arg.suspects[i].isGuilty

C24_InvalidAccusationRejected ==
    InvalidAccusation =>
        /\ ~last.ret.fetched
        /\ last.op = "analyze_solution" =>
              /\ last.raised
              /\ last.ret.error \in {"Accused suspect not found",
                                     "No guilty suspect found"}
              /\ last.ret.value = None
        /\ last.op = "do_POST" =>
              /\ last.ret.status = 500
              /\ last.ret.body \in {[error |-> "Accused suspect not found"],
                                    [error |-> "No guilty suspect found"]}

\* The endpoint has answered a request whose suspects are all innocent while
\* the gateway would have answered with a narrative
C24_Witness ==
    /\ InvalidAccusation
    /\ last.op = "do_POST"
    /\ ~last.arg.gateway.raised
    /\ Len(last.arg.suspects) = 2
    /\ last.arg.accusedSuspectId = "sus1"
    /\ last.ret.body = [error |-> "No guilty suspect found"]

\* C25: a response that embeds a valid JSON document as a fenced block
\* tagged json, as any fenced block (the tag may share the line of the
\* JSON), as an object with prose around it, or as the entire text, is parsed
\* to that document and is not replaced by the degraded default.
ValidDocuments ==
    {Object([summary |-> JStr("ok")]), <<LBrace, RBrace>>, <<Literal(JInt(42))>>,
     <<LBracket, RBracket>>}

TaggedBlock(doc) == {<<Fence, JsonTag>> \o doc \o <<Newline, Fence>>}
PlainBlock(doc) ==
    {<<Fence>> \o doc \o <<Fence>>, <<Fence, Newline>> \o doc \o <<Newline, Fence>>}
SameLineBlock(doc) == {<<Fence, Json>> \o doc \o <<Fence>>}
Around(bodies) ==
    {before \o body \o after :
        before \in {<<>>, <<Prose>>}, body \in bodies, after \in {<<>>, <<Prose>>}}

\* The texts that embed doc in one of the forms
Embeddings(doc) ==
    Around(TaggedBlock(doc) \cup PlainBlock(doc) \cup SameLineBlock(doc))
        \cup (IF doc[1] = LBrace THEN Around({doc}) ELSE {doc})

ParsedTo(doc) == ~last.raised /\ last.ret.value = loads(doc).value

C25_EmbeddedJsonIsParsed ==
    last.op = "parse_json_response" =>
        \A doc \in ValidDocuments :
            last.arg.response \in Embeddings(doc) => ParsedTo(doc)

\* The part of C25 that holds: the document is found when its block is
\* tagged json on a line of its own, when its block has no tag, when it is
\* an object with prose around it, and when it is the entire text.
C25_CandidateInPriorityOrder ==
    last.op = "parse_json_response" =>
        \A doc \in ValidDocuments :
            last.arg.response \in Embeddings(doc) \ Around(SameLineBlock(doc)) =>
                ParsedTo(doc)

\* C26: when the gateway call fails, when the response cannot be parsed or
\* when formatting the parsed payload fails, generate_case does not raise and
\* returns the bundle formatted from FALLBACK_CASE: one clue, and one suspect,
\* who is guilty.
GenerationFailed ==
    /\ last.op = "generate_case"
    /\ \/ last.arg.gateway.raised
       \/ case_generator_parse_json_response(last.arg.gateway.text).raised
       \/ format_generated_case_raises(
              case_generator_parse_json_response(last.arg.gateway.text).value)

C26_FailureGivesFallbackCase ==
    GenerationFailed =>
        /\ ~last.raised
        /\ ~format_generated_case_raises(FALLBACK_CASE)
        /\ last.ret = format_generated_case(FALLBACK_CASE, last.arg.uuid4)
        /\ last.ret.case.title = JStr("The Missing Backpack")
        /\ Len(last.ret.clues) = 1
        /\ Len(last.ret.suspects) = 1
        /\ last.ret.suspects[1].isGuilty = JBool(TRUE)

\* The answer parsed to a payload whose suspects are null, the formatting of
\* it failed, and the fallback bundle was returned
C26_Witness ==
    /\ GenerationFailed
    /\ ~last.arg.gateway.raised
    /\ ~case_generator_parse_json_response(last.arg.gateway.text).raised
    /\ last.ret.suspects[1].name = JStr("Jamie")

\* C27: save_case of a bundle for one case leaves every other stored case as
\* it was: get_case_by_id of the other case returns the same fields, clues
\* and suspects before and after the call, whatever ids the bundle holds.
C27_SaveCaseTouchesOnlyItsCase ==
    [][last'.op = "save_case" =>
        \A c \in (DOMAIN db.cases) \ {last'.arg.case.id} :
            get_case_by_id(db', c) = get_case_by_id(db, c)]_vars

\* The part of C27 that holds: a bundle whose clue and suspect ids are not
\* ids of rows of another case leaves the other cases as they were.
C27_FreshIdsTouchOnlyTheirCase ==
    [][(/\ last'.op = "save_case"
        /\ \A i \in DOMAIN last'.arg.clues :
              last'.arg.clues[i].id \in DOMAIN db.clues =>
                  db.clues[last'.arg.clues[i].id].caseId = last'.arg.case.id
        /\ \A i \in DOMAIN last'.arg.suspects :
              last'.arg.suspects[i].id \in DOMAIN db.suspects =>
                  db.suspects[last'.arg.suspects[i].id].caseId = last'.arg.case.id) =>
        \A c \in (DOMAIN db.cases) \ {last'.arg.case.id} :
            get_case_by_id(db', c) = get_case_by_id(db, c)]_vars

\* C28: on the Case Details page, after the player has clicked "Examine This
\* Clue" on a clue that was not examined and analyze_clue has an analysis for
\* it, get_clue_analysis of the clue returns that analysis and
\* get_examined_clues of the case holds the clue.
C28_ExaminedClueIsCachedAndMarked ==
    last.op = "examine_clue_button" =>
        /\ get_clue_analysis(db, last.arg.clue_id) = last.arg.analysis
        /\ last.arg.clue_id \in get_examined_clues(db, last.arg.case_id)

\* What the run does instead: it ends at a TypeError before anything is
\* stored, so the clue has no cached analysis and stays unexamined.
C28_ExamineStoresNothing ==
    [][last'.op = "examine_clue_button" =>
        /\ db' = db
        /\ last'.ret \in {157, 252, 261, 279}]_vars

\* C29: on the All Cases page a click on Delete deletes the case only if the
\* confirmation flag of that case is set, and the flag is set by nothing but
\* an earlier Delete click on the same case; a click with the flag unset
\* sets it and leaves the store as it was; the click that deletes resets the
\* flag to false.
C29_DeleteNeedsConfirmation ==
    [][/\ last'.op = "delete_button" =>
            IF session_get(session_state, confirm_key(last'.arg)) = "True"
            THEN /\ last'.arg \notin DOMAIN db'.cases
                 /\ session_get(session_state', confirm_key(last'.arg)) = "False"
            ELSE /\ db' = db
                 /\ session_get(session_state', confirm_key(last'.arg)) = "True"
       /\ \A c \in CaseIds :
            (/\ session_get(session_state, confirm_key(c)) # "True"
             /\ session_get(session_state', confirm_key(c)) = "True") =>
                (last'.op = "delete_button" /\ last'.arg = c)
       /\ \A c \in DOMAIN db.cases :
            (c \notin DOMAIN db'.cases /\ last'.op \in PageOps) =>
                (/\ last'.op = "delete_button" /\ last'.arg = c
                 /\ session_get(session_state, confirm_key(c)) = "True")]_vars

\* A second click on Delete has removed the case and reset its flag, while
\* another case is still stored
C29_Witness ==
    /\ last.op = "delete_button"
    /\ last.ret = TRUE
    /\ last.arg \notin DOMAIN db.cases
    /\ session_get(session_state, confirm_key(last.arg)) = "False"
    /\ DOMAIN db.cases # {}

====
